---------------------------- MODULE Spec2Model ----------------------------
(***************************************************************************)
(* A model of the C++17 formatting engine of src/compat_format.hpp (the    *)
(* branch taken when COMPAT_USE_STD_FORMAT is not defined).                *)
(*                                                                         *)
(* std::string values are TLA+ strings; a char is a string of length 1 and *)
(* the char '\0' is the empty string.  Positions are 0-based, as in the    *)
(* source: At(s, k) is s[k], Substr(s, pos, n) is s.substr(pos, n), and    *)
(* NPOS is std::string::npos.                                              *)
(***************************************************************************)
EXTENDS Integers, Sequences, FiniteSets, TLC

VARIABLES
    pc,                      \* where the call is: idle, loop, returned, thrown
    fmt,                     \* const std::string& fmt
    args,                    \* arg_tuple: the call's arguments, in order
    out,                     \* what the call has written through OutputIt out
    i,                       \* the loop index of format_to
    current_auto_arg_index,  \* the automatic counter
    indexing_mode,           \* compat::IndexingMode
    err,                     \* e.what() of the exception that ended the call
    pad_in,                  \* the inputs of one apply_padding_internal call
    pad_out,                 \* and its result
    sink,                    \* the container behind OutputIt out
    other                    \* the call of another thread, while it is not running

vars == <<pc, fmt, args, out, i, current_auto_arg_index, indexing_mode, err,
          pad_in, pad_out, sink, other>>

(***************************************************************************)
(* Bounds of the model.                                                    *)
(***************************************************************************)
MaxPieces == 3
MaxArgs == 2
MaxWidth == 5
MaxBody == 2
MaxSpec == 3
MaxId == 2

(***************************************************************************)
(* Characters and strings.                                                 *)
(***************************************************************************)
NUL == ""
NPOS == -1
INT_MAX == 2147483647

At(s, k) == SubSeq(s, k + 1, k + 1)

Min(a, b) == IF a < b THEN a ELSE b

\* s.substr(pos, n), for pos <= s.length()
Substr(s, pos, n) == SubSeq(s, pos + 1, Min(pos + n, Len(s)))

\* s.substr(pos)
SubstrFrom(s, pos) == SubSeq(s, pos + 1, Len(s))

\* s.find(c, pos)
Find(s, c, pos) ==
    LET hits == {k \in pos..(Len(s) - 1) : At(s, k) = c}
    IN  IF hits = {} THEN NPOS ELSE CHOOSE k \in hits : \A h \in hits : k <= h

\* std::string(n, c)
RECURSIVE Repeat(_, _)
Repeat(c, n) ==
    IF n <= 0 THEN ""
    ELSE LET half == Repeat(c, n \div 2)
         IN  half \o half \o (IF n % 2 = 1 THEN c ELSE "")

\* haystack.find(needle) != npos
Contains(haystack, needle) ==
    \E k \in 0..(Len(haystack) - Len(needle)) :
        Substr(haystack, k, Len(needle)) = needle

DigitChars == {"0", "1", "2", "3", "4", "5", "6", "7", "8", "9"}

isdigit(c) == c \in DigitChars

DigitValue(c) ==
    CASE c = "0" -> 0 [] c = "1" -> 1 [] c = "2" -> 2 [] c = "3" -> 3
      [] c = "4" -> 4 [] c = "5" -> 5 [] c = "6" -> 6 [] c = "7" -> 7
      [] c = "8" -> 8 [] c = "9" -> 9

AlignChars == {"<", "^", ">"}

\* The value of a run of decimal digits, or -1 when it exceeds cap
\* (std::out_of_range).  The test is made before multiplying.
RECURSIVE DecimalValue(_, _, _)
DecimalValue(digits, acc, cap) ==
    IF digits = "" THEN acc
    ELSE LET d == DigitValue(At(digits, 0))
         IN  IF acc > (cap - d) \div 10 THEN -1
             ELSE DecimalValue(SubstrFrom(digits, 1), acc * 10 + d, cap)

\* std::stoi of a run of decimal digits: [ok, value]
stoi(digits) ==
    LET v == DecimalValue(digits, 0, INT_MAX)
    IN  [ok |-> v # -1, value |-> v]

\* The end of the run of digits that starts at pos.
RECURSIVE DigitRunEnd(_, _)
DigitRunEnd(content, pos) ==
    IF pos < Len(content) /\ isdigit(At(content, pos))
    THEN DigitRunEnd(content, pos + 1)
    ELSE pos

(***************************************************************************)
(* struct ParsedFormatSpec, with its default member initialisers.          *)
(***************************************************************************)
ParsedFormatSpec ==
    [arg_id_str |-> "", fill |-> " ", align |-> NUL, hash_flag |-> FALSE,
     width |-> -1, precision |-> -1, type |-> NUL]

has_width(spec) == spec.width # -1

has_precision(spec) == spec.precision # -1

\* The two ways a function ends: a returned value, or a thrown
\* std::runtime_error with its what().
Returns(v) == [thrown |-> FALSE, value |-> v, what |-> ""]

Throws(msg) == [thrown |-> TRUE, value |-> "", what |-> msg]


(***************************************************************************)
(* internal::parse_placeholder_content, one operator per numbered step of  *)
(* the source.  A step takes the content and what the step before it left  *)
(* (the spec built so far and the cursor, or its throw) and gives the same *)
(* after it.                                                               *)
(***************************************************************************)
Cursor(spec, current_pos) == [spec |-> spec, current_pos |-> current_pos]

\* 2. Fill and Align
parse_fill_align(content, current_pos, spec) ==
    IF current_pos + 1 < Len(content)
    THEN IF At(content, current_pos + 1) \in AlignChars
         THEN Cursor([spec EXCEPT !.fill = At(content, current_pos),
                                  !.align = At(content, current_pos + 1)],
                     current_pos + 2)
         ELSE IF At(content, current_pos) \in AlignChars
              THEN Cursor([spec EXCEPT !.align = At(content, current_pos)],
                          current_pos + 1)
              ELSE Cursor(spec, current_pos)
    ELSE IF current_pos < Len(content) /\ At(content, current_pos) \in AlignChars
         THEN Cursor([spec EXCEPT !.align = At(content, current_pos)],
                     current_pos + 1)
         ELSE Cursor(spec, current_pos)

\* 3. Hash flag '#'
parse_hash_flag(content, c) ==
    IF c.current_pos < Len(content) /\ At(content, c.current_pos) = "#"
    THEN Cursor([c.spec EXCEPT !.hash_flag = TRUE], c.current_pos + 1)
    ELSE c

\* 3.5. Zero padding option '0': sets the fill, consumes nothing
parse_zero_flag(content, c) ==
    IF c.current_pos < Len(content) /\ At(content, c.current_pos) = "0"
       /\ c.spec.fill = " "
    THEN Cursor([c.spec EXCEPT !.fill = "0"], c.current_pos)
    ELSE c

\* The digits read by step 4 or 5, converted: the cursor after them, or the
\* throw that replaces std::out_of_range.
width_read(c, width_end, n) ==
    IF n.ok
    THEN Returns(Cursor([c.spec EXCEPT !.width = n.value], width_end))
    ELSE Throws("Format specifier width out of range")

precision_read(c, precision_end, n) ==
    IF n.ok
    THEN Returns(Cursor([c.spec EXCEPT !.precision = n.value], precision_end))
    ELSE Throws("Format specifier precision out of range")

\* 4. Width
parse_width(content, c) ==
    IF c.current_pos < Len(content) /\ isdigit(At(content, c.current_pos))
    THEN width_read(c, DigitRunEnd(content, c.current_pos),
                    stoi(Substr(content, c.current_pos,
                                DigitRunEnd(content, c.current_pos)
                                    - c.current_pos)))
    ELSE Returns(c)

\* 5. Precision
parse_precision(content, w) ==
    IF w.thrown THEN w
    ELSE IF w.value.current_pos < Len(content)
            /\ At(content, w.value.current_pos) = "."
         THEN IF w.value.current_pos + 1 < Len(content)
                 /\ isdigit(At(content, w.value.current_pos + 1))
              THEN precision_read(
                       w.value,
                       DigitRunEnd(content, w.value.current_pos + 1),
                       stoi(Substr(content, w.value.current_pos + 1,
                                   DigitRunEnd(content, w.value.current_pos + 1)
                                       - (w.value.current_pos + 1))))
              ELSE Throws("Format specifier missing precision digits after '.'")
         ELSE w

\* 6. Type
parse_type(content, p) ==
    IF p.thrown THEN p
    ELSE IF p.value.current_pos < Len(content)
         THEN Returns(Cursor([p.value.spec EXCEPT
                                  !.type = At(content, p.value.current_pos)],
                             p.value.current_pos + 1))
         ELSE p

\* A slip: what is left after the type is ignored.
parse_end_unchecked(content, t) ==
    IF t.thrown THEN t ELSE Returns(t.value.spec)

\* The check that nothing is left after the type
parse_end(content, t) ==
    IF t.thrown THEN t
    ELSE IF t.value.current_pos < Len(content)
         THEN Throws("Invalid characters at end of format specifier: "
                     \o SubstrFrom(content, t.value.current_pos))
         ELSE Returns(t.value.spec)

\* Steps 2 to 6, from the character after the ':'
parse_spec_body(content, current_pos, spec) ==
    parse_end(content,
      parse_type(content,
        parse_precision(content,
          parse_width(content,
            parse_zero_flag(content,
              parse_hash_flag(content,
                parse_fill_align(content, current_pos, spec)))))))

\* 1. Argument ID: the text before the ':' found at colon_pos
arg_id_before(content, colon_pos) ==
    IF colon_pos = 0 THEN ParsedFormatSpec
    ELSE [ParsedFormatSpec EXCEPT !.arg_id_str = Substr(content, 0, colon_pos)]

\* A slip: a placeholder without a ':' read as a spec.
parse_from_colon_spec_alone(content, colon_pos) ==
    IF colon_pos = NPOS
    THEN parse_spec_body(content, 0, ParsedFormatSpec)
    ELSE IF colon_pos + 1 >= Len(content)
         THEN Returns(arg_id_before(content, colon_pos))
         ELSE parse_spec_body(content, colon_pos + 1,
                              arg_id_before(content, colon_pos))

parse_from_colon(content, colon_pos) ==
    IF colon_pos = NPOS
    THEN Returns([ParsedFormatSpec EXCEPT !.arg_id_str = content])
    ELSE IF colon_pos + 1 >= Len(content)
         THEN Returns(arg_id_before(content, colon_pos))
         ELSE parse_spec_body(content, colon_pos + 1,
                              arg_id_before(content, colon_pos))

parse_placeholder_content(content) ==
    parse_from_colon(content, Find(content, ":", 0))

(***************************************************************************)
(* internal::apply_padding_internal                                        *)
(***************************************************************************)
NumericTypeChars == {"d", "b", "B", "o", "x", "X", "f", "F", NUL}

could_be_numeric(spec) == spec.type \in NumericTypeChars

\* The sign the function splits off value_str: the first character, when the
\* type may be numeric, it is '-' or '+', and something follows it.
sign_str_of(value_str, spec) ==
    IF could_be_numeric(spec) /\ value_str # ""
       /\ At(value_str, 0) \in {"-", "+"} /\ Len(value_str) > 1
    THEN Substr(value_str, 0, 1)
    ELSE ""

\* The alignment used when the spec gives none.
default_align(spec) == IF could_be_numeric(spec) THEN ">" ELSE "<"

\* A slip: the padding halved on both sides.
pad_right_of_half(padding_needed, pad_left) == pad_left

\* Centre alignment: what is left of the padding after pad_left.
pad_right_of(padding_needed, pad_left) == padding_needed - pad_left

\* A slip: the zeros put in front of the sign and the prefix.
zero_fill_padded_in_front(sign_str, prefix_str, value_str, spec, effective_align, padding_needed) ==
    IF effective_align = "<"
    THEN sign_str \o prefix_str \o value_str
             \o Repeat(spec.fill, padding_needed)
    ELSE Repeat(spec.fill, padding_needed) \o sign_str \o prefix_str
             \o value_str

\* Zero fill on a numeric type: the sign and prefix stay in front.
zero_fill_padded(sign_str, prefix_str, value_str, spec, effective_align, padding_needed) ==
    LET padding_chars == Repeat(spec.fill, padding_needed)
    IN  IF effective_align = ">"
        THEN sign_str \o prefix_str \o padding_chars \o value_str
        ELSE IF effective_align = "<"
             THEN sign_str \o prefix_str \o value_str \o padding_chars
             ELSE LET pad_left == padding_needed \div 2
                      pad_right == pad_right_of(padding_needed, pad_left)
                  IN  Repeat(spec.fill, pad_left) \o sign_str \o prefix_str
                          \o value_str \o Repeat(spec.fill, pad_right)

\* A slip: centre alignment with the larger half of the padding in front.
standard_padded_centre_front(sign_str, core_content_no_sign, spec, effective_align, padding_needed) ==
    CASE effective_align = "<" ->
             sign_str \o core_content_no_sign
                 \o Repeat(spec.fill, padding_needed)
      [] effective_align = ">" ->
             Repeat(spec.fill, padding_needed) \o sign_str
                 \o core_content_no_sign
      [] effective_align = "^" ->
             Repeat(spec.fill, padding_needed - padding_needed \div 2)
                 \o sign_str \o core_content_no_sign
                 \o Repeat(spec.fill, padding_needed \div 2)
      [] OTHER -> sign_str \o core_content_no_sign

\* Standard alignment: the switch on effective_align.
standard_padded(sign_str, core_content_no_sign, spec, effective_align, padding_needed) ==
    LET padding_chars == Repeat(spec.fill, padding_needed)
    IN  CASE effective_align = "<" ->
                 sign_str \o core_content_no_sign \o padding_chars
          [] effective_align = ">" ->
                 padding_chars \o sign_str \o core_content_no_sign
          [] effective_align = "^" ->
                 LET pad_left == padding_needed \div 2
                     pad_right == pad_right_of(padding_needed, pad_left)
                 IN  Repeat(spec.fill, pad_left) \o sign_str
                         \o core_content_no_sign \o Repeat(spec.fill, pad_right)
          [] OTHER -> sign_str \o core_content_no_sign

\* Whether the content is shorter than the width, so that padding is added.
needs_padding(spec, content_len_with_sign) ==
    has_width(spec) /\ spec.width > content_len_with_sign

apply_padding_internal(value_str_in, prefix_str, spec) ==
    LET sign_str == sign_str_of(value_str_in, spec)
        value_str == IF sign_str = "" THEN value_str_in
                     ELSE SubstrFrom(value_str_in, 1)
        core_content_no_sign == prefix_str \o value_str
        content_len_with_sign == Len(sign_str) + Len(core_content_no_sign)
    IN  IF needs_padding(spec, content_len_with_sign)
        THEN LET padding_needed == spec.width - content_len_with_sign
                 effective_align == IF spec.align = NUL THEN default_align(spec)
                                    ELSE spec.align
             IN  IF spec.fill = "0" /\ could_be_numeric(spec)
                    /\ effective_align \in AlignChars
                 THEN zero_fill_padded(sign_str, prefix_str, value_str, spec,
                                       effective_align, padding_needed)
                 ELSE standard_padded(sign_str, core_content_no_sign, spec,
                                      effective_align, padding_needed)
        ELSE sign_str \o core_content_no_sign

(***************************************************************************)
(* The formatters.  An argument is a record with its static type, "string" *)
(* (std::string, const char*, char[N]), "int" or "bool", and its value in  *)
(* the field of that type.                                                 *)
(***************************************************************************)
StringArg(v) == [type |-> "string", str |-> v, int |-> 0, bool |-> FALSE]

IntArg(v) == [type |-> "int", str |-> "", int |-> v, bool |-> FALSE]

BoolArg(v) == [type |-> "bool", str |-> "", int |-> 0, bool |-> v]

DigitChar(d, uppercase) ==
    IF uppercase THEN At("0123456789ABCDEF", d) ELSE At("0123456789abcdef", d)

\* The digits of n > 0 in the base, most significant first: what the binary
\* loop and the std::oct, std::hex and std::dec insertions produce.
RECURSIVE ToBase(_, _, _)
ToBase(n, base, uppercase) ==
    IF n = 0 THEN ""
    ELSE ToBase(n \div base, base, uppercase) \o DigitChar(n % base, uppercase)

\* ss << std::dec << ll_value
DecimalString(n) ==
    IF n = 0 THEN "0"
    ELSE IF n < 0 THEN "-" \o ToBase(-n, 10, FALSE)
         ELSE ToBase(n, 10, FALSE)

\* std::to_string of a std::size_t
to_string(n) == DecimalString(n)

\* A slip: the octal prefix given to the value zero as well.
zero_prefix_with_octal(spec) ==
    IF spec.hash_flag
    THEN CASE spec.type = "x" -> "0x"
           [] spec.type = "X" -> "0X"
           [] spec.type \in {"b", "B"} -> "0b"
           [] spec.type = "o" -> "0"
           [] OTHER -> ""
    ELSE ""

\* format_basic_type, value == 0: the prefix chosen for the digit "0"
zero_prefix(spec) ==
    IF spec.hash_flag
    THEN CASE spec.type = "x" -> "0x"
           [] spec.type = "X" -> "0X"
           [] spec.type \in {"b", "B"} -> "0b"
           [] OTHER -> ""
    ELSE ""

\* format_basic_type, a non-zero integer: [main_formatted_value, prefix_str],
\* the sign not yet in front, or the throw of the default case
nonzero_integral(ll_value, ull_value, spec) ==
    CASE spec.type \in {"b", "B"} ->
             Returns([main |-> ToBase(ull_value, 2, FALSE),
                      prefix |-> IF spec.hash_flag
                                 THEN (IF spec.type = "b" THEN "0b" ELSE "0B")
                                 ELSE "",
                      sign |-> IF ll_value < 0 THEN "-" ELSE ""])
      [] spec.type = "o" ->
             LET main == ToBase(ull_value, 8, FALSE)
             IN  Returns([main |-> main,
                          prefix |-> IF spec.hash_flag
                                        /\ (main = "" \/ At(main, 0) # "0")
                                     THEN "0" ELSE "",
                          sign |-> IF ll_value < 0 THEN "-" ELSE ""])
      [] spec.type = "x" ->
             Returns([main |-> ToBase(ull_value, 16, FALSE),
                      prefix |-> IF spec.hash_flag THEN "0x" ELSE "",
                      sign |-> IF ll_value < 0 THEN "-" ELSE ""])
      [] spec.type = "X" ->
             Returns([main |-> ToBase(ull_value, 16, TRUE),
                      prefix |-> IF spec.hash_flag THEN "0X" ELSE "",
                      sign |-> IF ll_value < 0 THEN "-" ELSE ""])
      [] spec.type \in {"d", NUL} ->
             Returns([main |-> DecimalString(ll_value), prefix |-> "",
                      sign |-> ""])
      [] OTHER ->
             Throws("Invalid type specifier '" \o spec.type
                    \o "' for integral argument")

\* The end of format_basic_type: the sign goes back in front of the value
\* and the whole is padded.
pad_integral(r, spec) ==
    IF r.thrown THEN r
    ELSE Returns(apply_padding_internal(r.value.sign \o r.value.main,
                                        r.value.prefix, spec))

\* format_basic_type<int>
\* A slip: the bits of the signed value taken as they are (shown on 8 bits).
ull_value_of_cast(ll_value) ==
    IF ll_value < 0 THEN 256 + ll_value ELSE ll_value

\* ull_value: static_cast<unsigned long long>(-ll_value) below zero, the
\* value itself otherwise.
ull_value_of(ll_value) == IF ll_value < 0 THEN -ll_value ELSE ll_value

format_basic_type(value, spec) ==
    IF value = 0
    THEN Returns(apply_padding_internal("0", zero_prefix(spec), spec))
    ELSE pad_integral(nonzero_integral(value, ull_value_of(value), spec), spec)

\* formatter<std::string>, formatter<const char*>, formatter<char[N]>
format_string(value, spec) == Returns(apply_padding_internal(value, "", spec))

\* formatter<bool>
format_bool(value, spec) ==
    IF spec.type # NUL /\ spec.type # "b" /\ spec.type # "s"
    THEN Throws("Invalid type specifier for bool argument")
    ELSE Returns(apply_padding_internal(IF value THEN "true" ELSE "false",
                                        "", spec))

\* formatter<DecayedType>::format(std::get<I>(tpl), spec)
formatter_format(arg, spec) ==
    CASE arg.type = "string" -> format_string(arg.str, spec)
      [] arg.type = "int" -> format_basic_type(arg.int, spec)
      [] arg.type = "bool" -> format_bool(arg.bool, spec)

(***************************************************************************)
(* format_to: the handling of one placeholder.                             *)
(***************************************************************************)
ULONG_MAX_TEXT == "18446744073709551615"

RECURSIVE StripLeadingZeros(_)
StripLeadingZeros(digits) ==
    IF digits # "" /\ At(digits, 0) = "0"
    THEN StripLeadingZeros(SubstrFrom(digits, 1))
    ELSE digits

\* a <= b for two runs of digits of the same length
RECURSIVE DigitsLeq(_, _)
DigitsLeq(a, b) ==
    IF a = "" THEN TRUE
    ELSE LET x == DigitValue(At(a, 0))
             y == DigitValue(At(b, 0))
         IN  IF x # y THEN x < y
             ELSE DigitsLeq(SubstrFrom(a, 1), SubstrFrom(b, 1))

\* std::stoul of a non-empty run of decimal digits (unsigned long of 64 bits).
\* text is the value in decimal; value is the number itself up to INT_MAX and
\* INT_MAX above it, which is all a comparison with num_args needs.
stoul(digits) ==
    LET t == StripLeadingZeros(digits)
        v == DecimalValue(t, 0, INT_MAX)
    IN  [ok |-> Len(t) < Len(ULONG_MAX_TEXT)
                \/ (Len(t) = Len(ULONG_MAX_TEXT) /\ DigitsLeq(t, ULONG_MAX_TEXT)),
         value |-> IF v = -1 THEN INT_MAX ELSE v,
         text |-> IF t = "" THEN "0" ELSE t]

all_digits(arg_id_str) ==
    \A k \in 0..(Len(arg_id_str) - 1) : isdigit(At(arg_id_str, k))

\* The locals a placeholder leaves behind, whether it returns or throws.
Rendered(text, mode, auto) ==
    [thrown |-> FALSE, what |-> "", text |-> text,
     indexing_mode |-> mode, current_auto_arg_index |-> auto]

Failed(msg, mode, auto) ==
    [thrown |-> TRUE, what |-> msg, text |-> "",
     indexing_mode |-> mode, current_auto_arg_index |-> auto]

\* The mode a call starts in.
initial_indexing_mode == "Unknown"

\* The value the automatic counter starts at.
initial_auto_arg_index == 0

\* The counter after an automatic placeholder took its index.
\* A slip: the counter is read but not incremented.
next_auto_arg_index_kept(auto) == auto

next_auto_arg_index(auto) == auto + 1

\* arg_to_format_idx of an automatic placeholder: the counter before it is
\* incremented.
automatic_target(auto) == auto

\* arg_to_format_idx of a manual placeholder: the value std::stoul gave.
\* A slip: the id taken as counted from 1.
manual_target_from_one(n) == n.value - 1

manual_target(n) == n.value

\* A slip: the check of the switch to automatic left out.
switches_to_automatic_unchecked(mode) == FALSE

\* The checks that refuse a switch of indexing mode.
switches_to_automatic(mode) == mode = "Manual"

\* A slip: the check of the switch to manual left out.
switches_to_manual_unchecked(mode) == FALSE

switches_to_manual(mode) == mode = "Automatic"

\* A slip: the argument id is checked before the indexing mode.
resolve_index_id_first(parsed_spec, mode, auto) ==
    IF parsed_spec.arg_id_str = ""
    THEN IF switches_to_automatic(mode)
         THEN Failed("Cannot switch from manual (e.g. {0}) to automatic (e.g. {}) argument indexing",
                     mode, auto)
         ELSE [thrown |-> FALSE, idx |-> automatic_target(auto),
               idx_text |-> to_string(automatic_target(auto)),
               indexing_mode |-> "Automatic",
               current_auto_arg_index |-> next_auto_arg_index(auto)]
    ELSE IF ~all_digits(parsed_spec.arg_id_str)
         THEN Failed("Invalid format placeholder: non-numeric argument index '"
                     \o parsed_spec.arg_id_str \o "'", mode, auto)
         ELSE IF switches_to_manual(mode)
              THEN Failed("Cannot switch from automatic (e.g. {}) to manual (e.g. {0}) argument indexing",
                          mode, auto)
              ELSE [thrown |-> FALSE,
                    idx |-> manual_target(stoul(parsed_spec.arg_id_str)),
                    idx_text |-> stoul(parsed_spec.arg_id_str).text,
                    indexing_mode |-> "Manual",
                    current_auto_arg_index |-> auto]

\* The index of the argument: arg_to_format_idx, with the mode and counter
\* after it, or the throw.
resolve_index(parsed_spec, mode, auto) ==
    IF parsed_spec.arg_id_str = ""
    THEN IF switches_to_automatic(mode)
         THEN Failed("Cannot switch from manual (e.g. {0}) to automatic (e.g. {}) argument indexing",
                     mode, auto)
         ELSE [thrown |-> FALSE, idx |-> automatic_target(auto),
               idx_text |-> to_string(automatic_target(auto)),
               indexing_mode |-> "Automatic",
               current_auto_arg_index |-> next_auto_arg_index(auto)]
    ELSE IF switches_to_manual(mode)
         THEN Failed("Cannot switch from automatic (e.g. {}) to manual (e.g. {0}) argument indexing",
                     mode, auto)
         ELSE IF ~all_digits(parsed_spec.arg_id_str)
              THEN Failed("Invalid format placeholder: non-numeric argument index '"
                          \o parsed_spec.arg_id_str \o "'", "Manual", auto)
              ELSE LET n == stoul(parsed_spec.arg_id_str)
                   IN  IF ~n.ok
                       THEN Failed("Invalid format placeholder: argument index '"
                                   \o parsed_spec.arg_id_str
                                   \o "' out of range for stoul", "Manual", auto)
                       ELSE [thrown |-> FALSE, idx |-> manual_target(n),
                             idx_text |-> n.text,
                             indexing_mode |-> "Manual",
                             current_auto_arg_index |-> auto]

\* The bounds check on arg_to_format_idx.
\* A slip: > for >=.
index_out_of_bounds_strict(idx, num_args) == idx > num_args

index_out_of_bounds(idx, num_args) == idx >= num_args

\* The wording of the out-of-bounds error.
\* A slip: one wording for every argument count.
out_of_bounds_message_general(idx_text, num_args) ==
    "Argument index " \o idx_text \o " out of bounds for "
        \o to_string(num_args) \o " arguments."

out_of_bounds_message(idx_text, num_args) ==
    IF num_args = 0
    THEN "Argument index " \o idx_text \o " out of bounds (no arguments provided)."
    ELSE "Argument index " \o idx_text \o " out of bounds for "
         \o to_string(num_args) \o " arguments."

\* DispatchHelper::do_dispatch: the positions Is of the tuple that equal the
\* target; processed_dispatch is set when there is one.
dispatch_targets(target_idx_val, num_args) ==
    {Is \in 0..(num_args - 1) : Is = target_idx_val}

\* format_nth_arg_to: the formatted value is written, or the formatter's
\* throw passes through.
format_nth_arg_to(f, r) ==
    IF f.thrown
    THEN Failed(f.what, r.indexing_mode, r.current_auto_arg_index)
    ELSE Rendered(f.value, r.indexing_mode, r.current_auto_arg_index)

\* From the resolved index r: the bounds check and the dispatch.
check_and_dispatch(parsed_spec, r, arg_tuple) ==
    IF r.thrown THEN r
    ELSE IF index_out_of_bounds(r.idx, Len(arg_tuple))
         THEN Failed(out_of_bounds_message(r.idx_text, Len(arg_tuple)),
                     r.indexing_mode, r.current_auto_arg_index)
         ELSE IF dispatch_targets(r.idx, Len(arg_tuple)) = {}
              THEN IF Len(arg_tuple) > 0 /\ r.idx < Len(arg_tuple)
                   THEN Failed("Internal error: argument dispatch failed for index "
                               \o r.idx_text,
                               r.indexing_mode, r.current_auto_arg_index)
                   ELSE Rendered("", r.indexing_mode, r.current_auto_arg_index)
              ELSE format_nth_arg_to(
                       formatter_format(
                           arg_tuple[1 + CHOOSE Is \in dispatch_targets(
                                                 r.idx, Len(arg_tuple)) : TRUE],
                           parsed_spec),
                       r)

\* From the parsed content: the index, then the rest.
resolve_and_format(placeholder_full_content, parsed, arg_tuple, mode, auto) ==
    IF parsed.thrown
    THEN Failed("Error parsing placeholder content '"
                \o placeholder_full_content \o "': " \o parsed.what, mode, auto)
    ELSE check_and_dispatch(parsed.value,
                            resolve_index(parsed.value, mode, auto),
                            arg_tuple)

\* One placeholder, from its content to the text it writes.
placeholder(placeholder_full_content, arg_tuple, mode, auto) ==
    resolve_and_format(placeholder_full_content,
                       parse_placeholder_content(placeholder_full_content),
                       arg_tuple, mode, auto)

(***************************************************************************)
(* format: the whole of format_to on a fresh std::string, as a function of *)
(* the template and the arguments.  The result is what was written and,    *)
(* when the call threw, the what() of the exception.                       *)
(***************************************************************************)
CallResult(thrown, text, what) == [thrown |-> thrown, out |-> text, what |-> what]

RECURSIVE format_to_from(_, _, _, _, _, _)

\* The loop after the placeholder at k gave r.
continue_after_placeholder(f, a, k, acc, r) ==
    IF r.thrown THEN CallResult(TRUE, acc, r.what)
    ELSE format_to_from(f, a, Find(f, "}", k + 1) + 1, r.indexing_mode,
                        r.current_auto_arg_index, acc \o r.text)

\* The loop of format_to from i = k with the locals given.
format_to_from(f, a, k, mode, auto, acc) ==
    IF k >= Len(f) THEN CallResult(FALSE, acc, "")
    ELSE IF At(f, k) = "{"
         THEN IF k + 1 < Len(f) /\ At(f, k + 1) = "{"
              THEN format_to_from(f, a, k + 2, mode, auto, acc \o "{")
              ELSE IF Find(f, "}", k + 1) = NPOS
                   THEN CallResult(TRUE, acc, "Unmatched '{' in format string")
                   ELSE continue_after_placeholder(
                            f, a, k, acc,
                            placeholder(Substr(f, k + 1,
                                               Find(f, "}", k + 1) - (k + 1)),
                                        a, mode, auto))
         ELSE IF At(f, k) = "}"
              THEN IF k + 1 < Len(f) /\ At(f, k + 1) = "}"
                   THEN format_to_from(f, a, k + 2, mode, auto, acc \o "}")
                   ELSE CallResult(TRUE, acc, "Unmatched '}' in format string")
              ELSE format_to_from(f, a, k + 1, mode, auto, acc \o At(f, k))

format(f, a) ==
    format_to_from(f, a, 0, initial_indexing_mode, initial_auto_arg_index, "")

(***************************************************************************)
(* The calls the model makes.  A template is a concatenation of at most    *)
(* MaxPieces pieces, or one of the templates of the tests; an argument     *)
(* list is a prefix of one of two pools.                                   *)
(***************************************************************************)
Pieces == {"a", "{", "}", "{}", "{0}", "{1}", "{x}", "{:.}"}

RECURSIVE TemplatesOf(_)
TemplatesOf(n) ==
    IF n = 0 THEN {""}
    ELSE LET shorter == TemplatesOf(n - 1)
         IN  shorter \cup {t \o p : t \in shorter, p \in Pieces}

StringPool(k) == StringArg(At("ABCDEFGH", k - 1))

MixedPool(k) ==
    CASE k % 3 = 1 -> IntArg(-10 * k)
      [] k % 3 = 2 -> BoolArg(TRUE)
      [] OTHER -> StringArg("-" \o At("abcdefgh", k - 1))

ArgLists ==
    {[k \in 1..n |-> StringPool(k)] : n \in 0..MaxArgs}
        \cup {[k \in 1..n |-> MixedPool(k)] : n \in 1..MaxArgs}

GeneratedCalls ==
    {[fmt |-> t, args |-> a] : t \in TemplatesOf(MaxPieces), a \in ArgLists}

\* One argument of each kind, for the templates that take a single argument.
SingleArgs ==
    {StringArg("test"), StringArg(""), StringArg("-5"), IntArg(42), IntArg(0),
     IntArg(-10), BoolArg(TRUE), BoolArg(FALSE)}

\* The calls of src/tests/gtest_main.cpp and src/main.cpp used by the claims.
TestCalls ==
    {[fmt |-> t, args |-> <<x>>] :
         t \in {"{{}} and {{{}}}", "{}", "{{{}}}", "Hello {{}} {}"},
         x \in SingleArgs}
    \cup {[fmt |-> "Escaped {{}} braces: {{}}", args |-> <<>>],
          [fmt |-> "Zero args: ", args |-> <<>>],
          [fmt |-> "Hello, World!", args |-> <<StringArg("A"), IntArg(1)>>],
          [fmt |-> "{} {} {}",
           args |-> <<StringArg("one"), StringArg("two"), StringArg("three")>>],
          [fmt |-> "String: {}, Number: {}",
           args |-> <<StringArg("test"), IntArg(123)>>],
          [fmt |-> "Bool: {} and {}", args |-> <<BoolArg(TRUE), BoolArg(FALSE)>>],
          [fmt |-> "{1}, {0}", args |-> <<StringArg("zero"), StringArg("one")>>],
          [fmt |-> "Number: {1}, String: {0}",
           args |-> <<StringArg("text"), IntArg(99)>>],
          [fmt |-> "{0} {1} {0}", args |-> <<StringArg("A"), StringArg("B")>>],
          [fmt |-> "{1} then {}", args |-> <<StringArg("A"), StringArg("B")>>],
          [fmt |-> "{} then {0}", args |-> <<StringArg("A"), StringArg("B")>>],
          [fmt |-> "{1} then {} then {0}",
           args |-> <<StringArg("A"), StringArg("B")>>],
          [fmt |-> "{5:q}", args |-> <<IntArg(42)>>],
          [fmt |-> "{0{{}", args |-> <<IntArg(42)>>],
          [fmt |-> "{:}}}", args |-> <<IntArg(42)>>],
          [fmt |-> "{:>4}}}}{{{}", args |-> <<IntArg(42), StringArg("A")>>],
          [fmt |-> "{{{{{}}}}}", args |-> <<IntArg(42)>>],
          [fmt |-> "{:*>5}|{:q}|{}", args |-> <<IntArg(42), IntArg(7)>>],
          [fmt |-> "{{{:<4}}} }{:03}", args |-> <<StringArg("A"), IntArg(7)>>],
          [fmt |-> "{:q} {5}", args |-> <<IntArg(0)>>],
          [fmt |-> "{:q} {5}", args |-> <<StringArg("A")>>],
          [fmt |-> "{0:q}", args |-> <<IntArg(42)>>],
          [fmt |-> "{} {0:.}", args |-> <<IntArg(42)>>],
          [fmt |-> "{} {abc}", args |-> <<IntArg(42)>>],
          [fmt |-> "{0} {:q}", args |-> <<IntArg(42)>>],
          [fmt |-> "{abc:.} {", args |-> <<IntArg(42)>>],
          [fmt |-> "{abc:q}", args |-> <<IntArg(42)>>],
          [fmt |-> "{99999999999999999999999:q} }", args |-> <<IntArg(42)>>],
          [fmt |-> "{} {99999999999999999999999}", args |-> <<IntArg(42)>>],
          [fmt |-> "{:d} {:x} {:q} {", args |-> <<BoolArg(TRUE), IntArg(42)>>],
          [fmt |-> "Hello {", args |-> <<StringArg("world")>>],
          [fmt |-> "Hello }", args |-> <<StringArg("world")>>],
          [fmt |-> "Hello {} {}", args |-> <<StringArg("world")>>],
          [fmt |-> "Hello {1}", args |-> <<StringArg("world")>>],
          [fmt |-> "Hello {}", args |-> <<>>],
          [fmt |-> "Hello {abc}", args |-> <<StringArg("world")>>],
          [fmt |-> "{out of bounds (no arguments provided)}",
           args |-> <<StringArg("world")>>],
          [fmt |-> "{:*^10}", args |-> <<StringArg("test")>>],
          [fmt |-> "{:5}", args |-> <<StringArg("longstring")>>],
          [fmt |-> "{:#010b}", args |-> <<IntArg(10)>>],
          [fmt |-> "{:08b}", args |-> <<IntArg(-10)>>],
          [fmt |-> "{:#x}", args |-> <<IntArg(0)>>],
          [fmt |-> "{:#o}", args |-> <<IntArg(0)>>],
          [fmt |-> "{:f}", args |-> <<IntArg(1)>>],
          [fmt |-> "{:d}", args |-> <<BoolArg(TRUE)>>]}

Calls == GeneratedCalls \cup TestCalls

(***************************************************************************)
(* format_to as a state machine: one action per branch of the body of its  *)
(* loop.  A call that ended keeps its state until the caller leaves it.    *)
(***************************************************************************)
NoPadding == [called |-> FALSE, result |-> ""]

\* The frame of a thread that is in no call: what a call keeps on its stack
\* (the parameters and locals of format_to) and the container it writes to.
IdleFrame ==
    [pc |-> "idle", fmt |-> "", args |-> <<>>, out |-> "", i |-> 0,
     current_auto_arg_index |-> initial_auto_arg_index,
     indexing_mode |-> initial_indexing_mode, err |-> "", sink |-> ""]

Init ==
    /\ pc = "idle"
    /\ fmt = ""
    /\ args = <<>>
    /\ out = ""
    /\ i = 0
    /\ current_auto_arg_index = initial_auto_arg_index
    /\ indexing_mode = initial_indexing_mode
    /\ err = ""
    /\ pad_in = [sign |-> "", prefix |-> "", body |-> "", spec |-> ParsedFormatSpec]
    /\ pad_out = NoPadding
    /\ sink = ""
    /\ other = IdleFrame

\* A call format_to(out, fmt, args...) with one of the calls given, on a
\* container that holds one of the contents given: the locals of format_to
\* are initialised.
CallFrom(calls, contents) ==
    /\ pc = "idle"
    /\ \E c \in calls :
           /\ fmt' = c.fmt
           /\ args' = c.args
    /\ sink' \in contents
    /\ out' = ""
    /\ i' = 0
    /\ current_auto_arg_index' = initial_auto_arg_index
    /\ indexing_mode' = initial_indexing_mode
    /\ err' = ""
    /\ pc' = "loop"
    /\ UNCHANGED <<pad_in, pad_out, other>>

\* What the container of a format_to call may hold before the call; format
\* itself passes an empty std::string.
SinkContents == {"", "Prefix: "}

Call == CallFrom(Calls, SinkContents)

InLoop == pc = "loop" /\ i < Len(fmt)

\* fmt[i] == '{' && fmt[i+1] == '{'
AtEscapedOpenBrace ==
    InLoop /\ At(fmt, i) = "{" /\ i + 1 < Len(fmt) /\ At(fmt, i + 1) = "{"

\* fmt[i] == '{', not doubled
AtOpenBrace == InLoop /\ At(fmt, i) = "{" /\ ~AtEscapedOpenBrace

\* fmt[i] == '}' && fmt[i+1] == '}'
AtEscapedCloseBrace ==
    InLoop /\ At(fmt, i) = "}" /\ i + 1 < Len(fmt) /\ At(fmt, i + 1) = "}"

\* fmt[i] == '}', not doubled
AtCloseBrace == InLoop /\ At(fmt, i) = "}" /\ ~AtEscapedCloseBrace

\* A slip: the text takes the place of what the container holds.
Write_overwrites(text) ==
    /\ out' = out \o text
    /\ sink' = text

\* *out++ = ch for each character of text: the characters are appended to
\* the container, after what it holds.
Write(text) ==
    /\ out' = out \o text
    /\ sink' = sink \o text

\* What an escape writes.
\* A slip: the escape copied as it stands.
escaped_open_text_copied == "{{"

escaped_open_text == "{"

escaped_close_text == "}"

EscapedOpenBrace ==
    /\ AtEscapedOpenBrace
    /\ Write(escaped_open_text)
    /\ i' = i + 2
    /\ UNCHANGED <<pc, fmt, args, current_auto_arg_index, indexing_mode, err,
                   pad_in, pad_out, other>>

UnmatchedOpenBrace ==
    /\ AtOpenBrace
    /\ Find(fmt, "}", i + 1) = NPOS
    /\ pc' = "thrown"
    /\ err' = "Unmatched '{' in format string"
    /\ UNCHANGED <<fmt, args, out, sink, i, current_auto_arg_index, indexing_mode,
                   pad_in, pad_out, other>>

\* The placeholder at i, with the locals as they are.
placeholder_at_i ==
    placeholder(Substr(fmt, i + 1, Find(fmt, "}", i + 1) - (i + 1)), args,
                indexing_mode, current_auto_arg_index)

\* A slip: the mode is not kept after the placeholder is written.
Formatted_mode_forgotten(r) ==
    /\ ~r.thrown
    /\ Write(r.text)
    /\ indexing_mode' = initial_indexing_mode
    /\ current_auto_arg_index' = r.current_auto_arg_index

Formatted(r) ==
    /\ ~r.thrown
    /\ Write(r.text)
    /\ indexing_mode' = r.indexing_mode
    /\ current_auto_arg_index' = r.current_auto_arg_index

Thrown(r) ==
    /\ r.thrown
    /\ err' = r.what
    /\ indexing_mode' = r.indexing_mode
    /\ current_auto_arg_index' = r.current_auto_arg_index

\* A slip: a doubled close brace is taken whole as the end of the
\* placeholder.
PlaceholderFormatted_doubled_end ==
    /\ AtOpenBrace
    /\ Find(fmt, "}", i + 1) # NPOS
    /\ Formatted(placeholder_at_i)
    /\ i' = IF Find(fmt, "}", i + 1) + 1 < Len(fmt)
                 /\ At(fmt, Find(fmt, "}", i + 1) + 1) = "}"
             THEN Find(fmt, "}", i + 1) + 2
             ELSE Find(fmt, "}", i + 1) + 1
    /\ UNCHANGED <<pc, fmt, args, err, pad_in, pad_out, other>>

PlaceholderFormatted ==
    /\ AtOpenBrace
    /\ Find(fmt, "}", i + 1) # NPOS
    /\ Formatted(placeholder_at_i)
    /\ i' = Find(fmt, "}", i + 1) + 1
    /\ UNCHANGED <<pc, fmt, args, err, pad_in, pad_out, other>>

\* A slip: the placeholder that fails is copied to the output as it stands.
PlaceholderThrows_copied ==
    /\ AtOpenBrace
    /\ Find(fmt, "}", i + 1) # NPOS
    /\ Thrown(placeholder_at_i)
    /\ pc' = "thrown"
    /\ Write(Substr(fmt, i, Find(fmt, "}", i + 1) + 1 - i))
    /\ UNCHANGED <<fmt, args, i, pad_in, pad_out, other>>

PlaceholderThrows ==
    /\ AtOpenBrace
    /\ Find(fmt, "}", i + 1) # NPOS
    /\ Thrown(placeholder_at_i)
    /\ pc' = "thrown"
    /\ UNCHANGED <<fmt, args, out, sink, i, pad_in, pad_out, other>>

EscapedCloseBrace ==
    /\ AtEscapedCloseBrace
    /\ Write(escaped_close_text)
    /\ i' = i + 2
    /\ UNCHANGED <<pc, fmt, args, current_auto_arg_index, indexing_mode, err,
                   pad_in, pad_out, other>>

\* A slip: a '}' on its own copied like any other character.
UnmatchedCloseBrace_copied ==
    /\ AtCloseBrace
    /\ Write("}")
    /\ i' = i + 1
    /\ UNCHANGED <<pc, fmt, args, current_auto_arg_index, indexing_mode, err,
                   pad_in, pad_out, other>>

UnmatchedCloseBrace ==
    /\ AtCloseBrace
    /\ pc' = "thrown"
    /\ err' = "Unmatched '}' in format string"
    /\ UNCHANGED <<fmt, args, out, sink, i, current_auto_arg_index, indexing_mode,
                   pad_in, pad_out, other>>

\* A slip: the character is passed but not written.
LiteralChar_not_written ==
    /\ InLoop
    /\ At(fmt, i) \notin {"{", "}"}
    /\ i' = i + 1
    /\ UNCHANGED <<pc, fmt, args, out, sink, current_auto_arg_index, indexing_mode,
                   err, pad_in, pad_out, other>>

LiteralChar ==
    /\ InLoop
    /\ At(fmt, i) \notin {"{", "}"}
    /\ Write(At(fmt, i))
    /\ i' = i + 1
    /\ UNCHANGED <<pc, fmt, args, current_auto_arg_index, indexing_mode, err,
                   pad_in, pad_out, other>>

\* The loop ends: return out.
Return ==
    /\ pc = "loop"
    /\ i >= Len(fmt)
    /\ pc' = "returned"
    /\ UNCHANGED <<fmt, args, out, sink, i, current_auto_arg_index, indexing_mode, err,
                   pad_in, pad_out, other>>

\* The caller takes the result or the exception; the next call finds whatever
\* the last one left in indexing_mode and current_auto_arg_index.
Leave ==
    /\ pc \in {"returned", "thrown"}
    /\ pc' = "idle"
    /\ fmt' = ""
    /\ args' = <<>>
    /\ out' = ""
    /\ i' = 0
    /\ err' = ""
    /\ sink' = ""
    /\ UNCHANGED <<current_auto_arg_index, indexing_mode, pad_in, pad_out, other>>

Next ==
    \/ Call
    \/ EscapedOpenBrace
    \/ UnmatchedOpenBrace
    \/ PlaceholderFormatted
    \/ PlaceholderThrows
    \/ EscapedCloseBrace
    \/ UnmatchedCloseBrace
    \/ LiteralChar
    \/ Return
    \/ Leave

Spec == Init /\ [][Next]_vars

(***************************************************************************)
(* apply_padding_internal on its own: the inputs are drawn from the        *)
(* renderings its callers pass.  A numeric caller (format_basic_type)      *)
(* passes an optional '-', a base prefix and a non-empty run of digits; a  *)
(* text caller passes the text as it is, with no prefix.                   *)
(***************************************************************************)
RECURSIVE StringsOver(_, _)
StringsOver(alphabet, n) ==
    IF n = 0 THEN {""}
    ELSE LET shorter == StringsOver(alphabet, n - 1)
         IN  shorter \cup {t \o c : t \in shorter, c \in alphabet}

PadSpecs(types) ==
    {[ParsedFormatSpec EXCEPT !.fill = f, !.align = a, !.width = w, !.type = t] :
         f \in {" ", "0", "*"}, a \in {NUL} \cup AlignChars,
         w \in {-1} \cup 0..MaxWidth, t \in types}

NumericPadInputs ==
    {[sign |-> sg, prefix |-> p, body |-> b, spec |-> sp] :
         sg \in {"", "-"}, p \in {"", "0", "0x"},
         b \in StringsOver({"1", "a"}, MaxBody) \ {""},
         sp \in PadSpecs({NUL, "d", "x"})}

TextPadInputs ==
    {[sign |-> "", prefix |-> "", body |-> b, spec |-> sp] :
         b \in StringsOver({"-", "t"}, MaxBody),
         sp \in PadSpecs({NUL, "s", "x"})}

PadInputs == NumericPadInputs \cup TextPadInputs

InitPad ==
    /\ pc = "idle"
    /\ fmt = ""
    /\ args = <<>>
    /\ out = ""
    /\ i = 0
    /\ current_auto_arg_index = initial_auto_arg_index
    /\ indexing_mode = initial_indexing_mode
    /\ err = ""
    /\ pad_in \in PadInputs
    /\ pad_out = NoPadding
    /\ sink = ""
    /\ other = IdleFrame

\* One call apply_padding_internal(sign + body, prefix, spec)
ApplyPadding ==
    /\ ~pad_out.called
    /\ pad_out' = [called |-> TRUE,
                   result |-> apply_padding_internal(pad_in.sign \o pad_in.body,
                                                     pad_in.prefix, pad_in.spec)]
    /\ UNCHANGED <<pc, fmt, args, out, sink, i, current_auto_arg_index,
                   indexing_mode, err, pad_in, other>>

NextPad == ApplyPadding

SpecPad == InitPad /\ [][NextPad]_vars

(***************************************************************************)
(* What the claims say of a template, read off its text alone.            *)
(***************************************************************************)
\* The positions where a left-to-right reading of the template finds a
\* placeholder: a '{' that is not the first of "{{" and has a '}' after it.
\* The reading resumes after that '}'; "{{" and "}}" are passed as pairs and a
\* '}' on its own is passed over.
RECURSIVE PlaceholdersFrom(_, _)
PlaceholdersFrom(f, k) ==
    IF k >= Len(f) THEN {}
    ELSE IF At(f, k) = "{"
         THEN IF k + 1 < Len(f) /\ At(f, k + 1) = "{"
              THEN PlaceholdersFrom(f, k + 2)
              ELSE IF Find(f, "}", k + 1) = NPOS THEN {}
                   ELSE {k} \cup PlaceholdersFrom(f, Find(f, "}", k + 1) + 1)
         ELSE IF At(f, k) = "}" /\ k + 1 < Len(f) /\ At(f, k + 1) = "}"
              THEN PlaceholdersFrom(f, k + 2)
              ELSE PlaceholdersFrom(f, k + 1)

PlaceholderPositions(f) == PlaceholdersFrom(f, 0)

\* The text between the braces of the placeholder at k.
ContentAt(f, k) == Substr(f, k + 1, Find(f, "}", k + 1) - (k + 1))

\* The argument id of a placeholder: its text before the first ':'.
ArgIdOf(content) ==
    IF Find(content, ":", 0) = NPOS THEN content
    ELSE Substr(content, 0, Find(content, ":", 0))

IsAutomaticAt(f, k) == ArgIdOf(ContentAt(f, k)) = ""

IsManualAt(f, k) ==
    ArgIdOf(ContentAt(f, k)) # "" /\ all_digits(ArgIdOf(ContentAt(f, k)))

\* The number an all-digit argument id stands for.
IdValue(id) == DecimalValue(id, 0, INT_MAX)

NoBraces(f) == \A k \in 0..(Len(f) - 1) : At(f, k) \notin {"{", "}"}

\* The first brace a left-to-right reading finds unmatched: "{" (not doubled,
\* no '}' after it), "}" (outside a placeholder, not doubled), or "" if none.
RECURSIVE UnmatchedFrom(_, _)
UnmatchedFrom(f, k) ==
    IF k >= Len(f) THEN ""
    ELSE IF At(f, k) = "{"
         THEN IF k + 1 < Len(f) /\ At(f, k + 1) = "{"
              THEN UnmatchedFrom(f, k + 2)
              ELSE IF Find(f, "}", k + 1) = NPOS THEN "{"
                   ELSE UnmatchedFrom(f, Find(f, "}", k + 1) + 1)
         ELSE IF At(f, k) = "}"
              THEN IF k + 1 < Len(f) /\ At(f, k + 1) = "}"
                   THEN UnmatchedFrom(f, k + 2)
                   ELSE "}"
              ELSE UnmatchedFrom(f, k + 1)

\* What the template renders to from position k up to position upto when
\* every placeholder met renders the argument its id names: the n-th
\* argument for the n-th automatic placeholder (n from 0), argument N for an
\* id N.  Meant for stretches of the template in which nothing fails.
ArgumentOr(a, idx, parsed_spec) ==
    IF idx + 1 \in DOMAIN a
    THEN formatter_format(a[idx + 1], parsed_spec).value
    ELSE "<no such argument>"

RECURSIVE Rendering(_, _, _, _, _)
Rendering(f, a, k, upto, n) ==
    IF k >= upto THEN ""
    ELSE IF At(f, k) = "{"
         THEN IF k + 1 < Len(f) /\ At(f, k + 1) = "{"
              THEN "{" \o Rendering(f, a, k + 2, upto, n)
              ELSE IF Find(f, "}", k + 1) = NPOS THEN "<unmatched>"
              ELSE IF IsAutomaticAt(f, k)
                   THEN ArgumentOr(a, n,
                            parse_placeholder_content(ContentAt(f, k)).value)
                        \o Rendering(f, a, Find(f, "}", k + 1) + 1, upto, n + 1)
                   ELSE ArgumentOr(a, IdValue(ArgIdOf(ContentAt(f, k))),
                            parse_placeholder_content(ContentAt(f, k)).value)
                        \o Rendering(f, a, Find(f, "}", k + 1) + 1, upto, n)
         ELSE IF At(f, k) = "}"
              THEN "}" \o Rendering(f, a, k + 2, upto, n)
              ELSE At(f, k) \o Rendering(f, a, k + 1, upto, n)

\* The placeholder the loop is about to handle, and what it holds.
AtPlaceholder == AtOpenBrace /\ Find(fmt, "}", i + 1) # NPOS

ParsedAtI == parse_placeholder_content(ContentAt(fmt, i))

ParsesAtI == ~ParsedAtI.thrown

\* The forms of the errors the claims name.
StartsWith(s, prefix) == Substr(s, 0, Len(prefix)) = prefix

EndsWith(s, suffix) ==
    Len(s) >= Len(suffix) /\ SubstrFrom(s, Len(s) - Len(suffix)) = suffix

IsOutOfBounds(e) == StartsWith(e, "Argument index ") /\ Contains(e, "out of bounds")

IsNoArguments(e) ==
    StartsWith(e, "Argument index ")
        /\ EndsWith(e, " out of bounds (no arguments provided).")

IsModeConflict(e) == StartsWith(e, "Cannot switch from ")

AllAutomatic(f) == \A p \in PlaceholderPositions(f) : IsAutomaticAt(f, p)

AllManual(f) == \A p \in PlaceholderPositions(f) : IsManualAt(f, p)

\* The placeholders the loop has passed.
PlaceholdersBefore(f, k) == {p \in PlaceholderPositions(f) : p < k}

(***************************************************************************)
(* C1                                                                      *)
(***************************************************************************)
\* One step at "{{" or "}}" writes that one brace and nothing else, moves two
\* characters on, and leaves the indexing mode and the counter as they were.
C1_EscapeStep ==
    /\ AtEscapedOpenBrace =>
           /\ out' = out \o "{"
           /\ i' = i + 2
           /\ pc' = "loop"
           /\ indexing_mode' = indexing_mode
           /\ current_auto_arg_index' = current_auto_arg_index
    /\ AtEscapedCloseBrace =>
           /\ out' = out \o "}"
           /\ i' = i + 2
           /\ pc' = "loop"
           /\ indexing_mode' = indexing_mode
           /\ current_auto_arg_index' = current_auto_arg_index

\* format("{{}} and {{{}}}", x) = "{} and {" + format("{}", x) + "}"
C1_RoundTrip ==
    (fmt = "{{}} and {{{}}}" /\ Len(args) = 1) =>
        /\ pc # "thrown"
        /\ ~format("{}", args).thrown
        /\ pc = "returned" => out = "{} and {" \o format("{}", args).out \o "}"

\* C1: outside a placeholder "{{" writes exactly one '{' and "}}" exactly one
\* '}', neither takes an argument nor changes the indexing mode or the
\* automatic counter; and for every argument x the call
\* format("{{}} and {{{}}}", x) returns "{} and {" + format("{}", x) + "}".
C1_EscapesIndependent == []C1_RoundTrip /\ [][C1_EscapeStep]_vars

C1_Witness ==
    /\ pc = "returned"
    /\ fmt = "{{}} and {{{}}}"
    /\ args = <<IntArg(42)>>
    /\ out = "{} and {42}"
    /\ current_auto_arg_index = 1

(***************************************************************************)
(* C2                                                                      *)
(***************************************************************************)
\* C2: a template with no '{' and no '}' is returned unchanged, whatever the
\* arguments (none, or any number of surplus ones), and the call never fails:
\* the loop has always written exactly the characters it has passed.
C2_PlainText ==
    (pc # "idle" /\ NoBraces(fmt)) =>
        /\ pc # "thrown"
        /\ pc = "loop" => out = Substr(fmt, 0, i)
        /\ pc = "returned" => out = fmt
        /\ format(fmt, args) = CallResult(FALSE, fmt, "")

C2_Witness ==
    /\ pc = "returned"
    /\ fmt = "Hello, World!"
    /\ Len(args) = 2
    /\ out = "Hello, World!"

(***************************************************************************)
(* C3                                                                      *)
(***************************************************************************)
\* C3: in a call whose placeholders all have an empty argument id, the
\* counter is 0 when the call starts and, wherever the loop stands, equals
\* the number of placeholders passed (so each adds exactly one and literals
\* and escapes add nothing), and what has been written is the template so far
\* with the k-th placeholder (k from 0) replaced by the rendering of
\* argument k.
C3_AutomaticIndexing ==
    (pc \in {"loop", "returned"} /\ AllAutomatic(fmt)) =>
        /\ i = 0 => current_auto_arg_index = 0
        /\ current_auto_arg_index = Cardinality(PlaceholdersBefore(fmt, i))
        /\ current_auto_arg_index <= Len(args)
        /\ out = Rendering(fmt, args, 0, i, 0)

C3_Witness ==
    /\ pc = "returned"
    /\ fmt = "{} {} {}"
    /\ out = "one two three"
    /\ current_auto_arg_index = 3

(***************************************************************************)
(* C4                                                                      *)
(***************************************************************************)
\* A placeholder with id N that is rendered writes argument N as its spec
\* formats it, and leaves the counter alone.
C4_ManualStep ==
    (AtPlaceholder /\ IsManualAt(fmt, i) /\ pc' = "loop") =>
        /\ ParsesAtI
        /\ IdValue(ArgIdOf(ContentAt(fmt, i))) < Len(args)
        /\ out' = out \o ArgumentOr(args, IdValue(ArgIdOf(ContentAt(fmt, i))),
                                    ParsedAtI.value)
        /\ indexing_mode' = "Manual"
        /\ current_auto_arg_index' = current_auto_arg_index

\* In a call whose placeholders all carry an id, what has been written is the
\* template so far with each placeholder replaced by the argument its id
\* names, and the counter stays 0.
C4_ManualRendering ==
    (pc \in {"loop", "returned"} /\ AllManual(fmt)) =>
        /\ current_auto_arg_index = 0
        /\ out = Rendering(fmt, args, 0, i, 0)

\* C4: a placeholder with explicit id N renders argument N, wherever it
\* stands and whatever the other placeholders are; an argument may be named
\* several times or not at all.
C4_ManualIndexing == []C4_ManualRendering /\ [][C4_ManualStep]_vars

C4_Witness ==
    /\ pc = "returned"
    /\ fmt = "{0} {1} {0}"
    /\ args = <<StringArg("A"), StringArg("B")>>
    /\ out = "A B A"

(***************************************************************************)
(* C5                                                                      *)
(***************************************************************************)
\* A placeholder with an id was rendered before position k.
ManualBefore(f, k) == \E p \in PlaceholdersBefore(f, k) : ~IsAutomaticAt(f, p)

AutomaticBefore(f, k) == \E p \in PlaceholdersBefore(f, k) : IsAutomaticAt(f, p)

C5_SwitchStep ==
    /\ (AtPlaceholder /\ ParsesAtI /\ IsAutomaticAt(fmt, i)
            /\ ManualBefore(fmt, i)) =>
           /\ pc' = "thrown"
           /\ Contains(err', "Cannot switch from manual")
           /\ ~Contains(err', "Cannot switch from automatic")
           /\ out' = out
    /\ (AtPlaceholder /\ ParsesAtI /\ ~IsAutomaticAt(fmt, i)
            /\ AutomaticBefore(fmt, i)) =>
           /\ pc' = "thrown"
           /\ Contains(err', "Cannot switch from automatic")
           /\ ~Contains(err', "Cannot switch from manual")
           /\ out' = out

Mixes(f) ==
    /\ \E p \in PlaceholderPositions(f) : ContentAt(f, p) = ""
    /\ \E p \in PlaceholderPositions(f) :
           ContentAt(f, p) # "" /\ all_digits(ContentAt(f, p))

\* A placeholder of the other kind than one before it.
SwitchAt(f, k) ==
    /\ k \in PlaceholderPositions(f)
    /\ \E p \in PlaceholdersBefore(f, k) :
           IsAutomaticAt(f, p) # IsAutomaticAt(f, k)

FirstSwitch(f) ==
    CHOOSE k \in 0..Len(f) :
        /\ SwitchAt(f, k)
        /\ \A p \in 0..(k - 1) : ~SwitchAt(f, p)

\* The call ended (returned or threw).
Ended == pc \in {"returned", "thrown"}

\* C6 as it stands: every call on a template with both kinds ends in an
\* indexing-mode-conflict error.
C6_AsStated == (Ended /\ Mixes(fmt)) => (pc = "thrown" /\ IsModeConflict(err))

\* C6 (amended): a call on a template holding both "{}" and "{N}" never
\* returns, whatever N, the number of arguments and the order of the two.
\* The loop gets no further than the first placeholder of the other kind, and
\* the error is the indexing-mode conflict exactly when it gets that far and
\* the content of that placeholder parses; when an earlier construct fails
\* (an index out of bounds, an invalid placeholder, an unmatched brace) the
\* call fails with that construct's error.
C6_ModeExclusivity ==
    (pc # "idle" /\ Mixes(fmt)) =>
        /\ pc # "returned"
        /\ i <= FirstSwitch(fmt)
        /\ pc = "thrown" =>
               (IsModeConflict(err) <=>
                    /\ i = FirstSwitch(fmt)
                    /\ ~parse_placeholder_content(ContentAt(fmt, i)).thrown)

C6_Witness ==
    /\ pc = "thrown"
    /\ fmt = "{}{1}"
    /\ Len(args) = 1
    /\ out = "A"
    /\ IsModeConflict(err)

(***************************************************************************)
(* C7                                                                      *)
(***************************************************************************)
\* The placeholder at i gets as far as a target index: its content parses,
\* it does not switch the indexing mode, and its id, if any, is a number that
\* fits an unsigned long.
ResolvesAtI ==
    /\ AtPlaceholder
    /\ ParsesAtI
    /\ IF IsAutomaticAt(fmt, i)
       THEN indexing_mode # "Manual"
       ELSE /\ indexing_mode # "Automatic"
            /\ IsManualAt(fmt, i)
            /\ stoul(ArgIdOf(ContentAt(fmt, i))).ok

TargetAtI ==
    IF IsAutomaticAt(fmt, i) THEN current_auto_arg_index
    ELSE stoul(ArgIdOf(ContentAt(fmt, i))).value

C7_BoundsStep ==
    /\ (AtPlaceholder /\ pc' = "loop") =>
           (ResolvesAtI /\ TargetAtI < Len(args))
    /\ (ResolvesAtI /\ TargetAtI >= Len(args)) =>
           /\ pc' = "thrown"
           /\ IsOutOfBounds(err')
           /\ out' = out
    /\ (ResolvesAtI /\ TargetAtI < Len(args)) => ~IsOutOfBounds(err')

\* Every brace of the template belongs to a "{}".
OnlyEmptyPlaceholders(f) ==
    \A k \in 0..(Len(f) - 1) :
        /\ At(f, k) = "{" => (k + 1 < Len(f) /\ At(f, k + 1) = "}")
        /\ At(f, k) = "}" => (k >= 1 /\ At(f, k - 1) = "{")

C7_OnlyAutomatic ==
    (Ended /\ OnlyEmptyPlaceholders(fmt)) =>
        IF Cardinality(PlaceholderPositions(fmt)) > Len(args)
        THEN pc = "thrown" /\ IsOutOfBounds(err)
        ELSE pc = "returned"

\* C7: with n arguments a placeholder is rendered only if its target index is
\* less than n, and a placeholder whose target index is n or more makes the
\* call fail with an out-of-bounds error; a call on a template whose only
\* brace constructs are "{}" fails with that error when there are more
\* placeholders than arguments and returns otherwise.
C7_Bounds == []C7_OnlyAutomatic /\ [][C7_BoundsStep]_vars

C7_Witness ==
    /\ pc = "thrown"
    /\ fmt = "Hello {} {}"
    /\ Len(args) = 1
    /\ out = "Hello world "
    /\ err = "Argument index 1 out of bounds for 1 arguments."

(***************************************************************************)
(* C8                                                                      *)
(***************************************************************************)
\* C8 as it stands, for the templates with no unmatched brace.
C8_AsStated ==
    (Ended /\ PlaceholderPositions(fmt) # {} /\ UnmatchedFrom(fmt, 0) = "") =>
        /\ Len(args) = 0 =>
               /\ pc = "thrown"
               /\ Contains(err, "out of bounds")
               /\ Contains(err, "no arguments provided")
        /\ Len(args) >= 1 => ~Contains(err, "no arguments provided")

\* The call threw at a placeholder whose content parses and whose id is empty
\* or a number that fits an unsigned long.
FailedAtIndexedPlaceholder ==
    /\ pc = "thrown"
    /\ i \in PlaceholderPositions(fmt)
    /\ ~parse_placeholder_content(ContentAt(fmt, i)).thrown
    /\ \/ IsAutomaticAt(fmt, i)
       \/ IsManualAt(fmt, i) /\ stoul(ArgIdOf(ContentAt(fmt, i))).ok

\* C8 (amended): a call with no arguments on a template that holds a
\* placeholder fails; its error is the out-of-bounds error in the wording
\* "Argument index N out of bounds (no arguments provided)." exactly when the
\* construct it fails at is a placeholder whose content parses and whose id
\* is empty or a decimal number that fits an unsigned long.  A call with at
\* least one argument never fails with the error in that wording.
C8_NoArguments ==
    /\ (Ended /\ PlaceholderPositions(fmt) # {} /\ Len(args) = 0) =>
           /\ pc = "thrown"
           /\ IsNoArguments(err) <=> FailedAtIndexedPlaceholder
           /\ IsNoArguments(err) =>
                  /\ Contains(err, "out of bounds")
                  /\ Contains(err, "no arguments provided")
    /\ Len(args) >= 1 => ~IsNoArguments(err)

C8_Witness ==
    /\ pc = "thrown"
    /\ fmt = "Hello {}"
    /\ args = <<>>
    /\ out = "Hello "
    /\ err = "Argument index 0 out of bounds (no arguments provided)."

(***************************************************************************)
(* C9                                                                      *)
(***************************************************************************)
\* The loop stands at a '{' that is not the first of "{{" and has no '}'
\* after it.
AtUnclosedBrace == AtOpenBrace /\ Find(fmt, "}", i + 1) = NPOS

C9_UnmatchedStep ==
    /\ AtUnclosedBrace =>
           /\ pc' = "thrown"
           /\ err' = "Unmatched '{' in format string"
           /\ out' = out
    /\ AtCloseBrace =>
           /\ pc' = "thrown"
           /\ err' = "Unmatched '}' in format string"
           /\ out' = out

\* A call returns only if its template has no unmatched brace, and a call
\* that stopped at an unmatched brace carries that brace's error.
C9_NeverPassed ==
    /\ pc = "returned" => UnmatchedFrom(fmt, 0) = ""
    /\ (pc = "thrown" /\ At(fmt, i) = "}") =>
           err = "Unmatched '}' in format string"
    /\ (pc = "thrown" /\ At(fmt, i) = "{" /\ Find(fmt, "}", i + 1) = NPOS) =>
           err = "Unmatched '{' in format string"

\* C9: when the loop meets a '{' that is not doubled and has no '}' after it,
\* the call fails with the unmatched-'{' error, and when it meets a '}'
\* outside a placeholder that is not followed at once by another '}', the
\* call fails with the unmatched-'}' error, whatever the number of arguments;
\* no call returns on a template that holds such a brace.
C9_UnmatchedBraces == []C9_NeverPassed /\ [][C9_UnmatchedStep]_vars

C9_Witness ==
    /\ pc = "thrown"
    /\ fmt = "Hello {"
    /\ Len(args) = 1
    /\ out = "Hello "
    /\ err = "Unmatched '{' in format string"

(***************************************************************************)
(* C10                                                                     *)
(***************************************************************************)
Max(a, b) == IF a >= b THEN a ELSE b

\* sign + prefix + body, the content apply_padding_internal was given.
PadContent == pad_in.sign \o pad_in.prefix \o pad_in.body

\* C10: the padded result is max(width, len(sign) + len(prefix) + len(body))
\* characters long when a width is present and as long as the content when
\* it is absent; when the content is at least as long as the width the result
\* is sign + prefix + body itself, whatever the fill and the alignment.
C10_WidthOnlyPads ==
    pad_out.called =>
        /\ Len(pad_out.result) =
               IF pad_in.spec.width # -1
               THEN Max(pad_in.spec.width, Len(PadContent))
               ELSE Len(PadContent)
        /\ (pad_in.spec.width = -1 \/ Len(PadContent) >= pad_in.spec.width) =>
               pad_out.result = PadContent

C10_Witness ==
    /\ pad_out.called
    /\ pad_in.sign = "-"
    /\ pad_in.prefix = "0x"
    /\ pad_in.body = "1a"
    /\ pad_in.spec.width = 5
    /\ pad_in.spec.align = "^"
    /\ pad_in.spec.fill = "*"
    /\ Len(pad_out.result) = 5

(***************************************************************************)
(* Calls of format with one placeholder and one argument: every spec made  *)
(* of an optional fill and alignment, '#', '0', a width, a precision and a *)
(* type character, on integers, booleans and strings.                      *)
(***************************************************************************)
FillAligns == {"", "<", ">", "^", "*<", "*>", "*^", "0>"}

WidthTexts == {"", "3", "8", "10"}

PrecisionTexts == {"", ".2"}

TypeChars == {"", "d", "b", "B", "o", "x", "X", "f", "s"}

OneTemplates ==
    {"{:" \o fa \o h \o z \o w \o p \o t \o "}" :
         fa \in FillAligns, h \in {"", "#"}, z \in {"", "0"},
         w \in WidthTexts, p \in PrecisionTexts, t \in TypeChars}

OneArgs ==
    {IntArg(0), IntArg(10), IntArg(-10), IntArg(26), IntArg(-26), IntArg(123),
     BoolArg(TRUE), BoolArg(FALSE),
     StringArg("test"), StringArg("-ab"), StringArg("+5"),
     StringArg("longstring")}

OneCalls == {[fmt |-> t, args |-> <<x>>] : t \in OneTemplates, x \in OneArgs}

\* format(fmt, x): format_to on an empty std::string
CallOne == CallFrom(OneCalls, {""})

NextOne ==
    \/ CallOne
    \/ PlaceholderFormatted
    \/ PlaceholderThrows
    \/ Return
    \/ Leave

SpecOne == Init /\ [][NextOne]_vars

(***************************************************************************)
(* What the claims say of a call with one placeholder and one argument.    *)
(***************************************************************************)
\* The spec of the placeholder the template starts with, and the argument.
OneSpec == parse_placeholder_content(ContentAt(fmt, 0)).value

OneArg == args[1]

LastOf(s) == At(s, Len(s) - 1)

(***************************************************************************)
(* C11                                                                     *)
(***************************************************************************)
\* The type characters of the integer presentations.
IntegerTypes == {NUL, "d", "b", "B", "o", "x", "X"}

\* The call returned a rendering padded with spaces to the width, under a
\* spec with no alignment character (and, for an integer, a type character
\* of the integer presentations).
PaddedByDefault ==
    /\ pc = "returned"
    /\ Len(args) = 1
    /\ OneArg.type = "int" => OneSpec.type \in IntegerTypes
    /\ OneSpec.align = NUL
    /\ OneSpec.fill = " "
    /\ OneSpec.width = Len(out)
    /\ (At(out, 0) = " " \/ LastOf(out) = " ")

\* C11: with a width larger than the content and no alignment character, an
\* integer or boolean argument is right-aligned (the padding is in front) and
\* a string argument is left-aligned (the padding is behind), whatever the
\* type character of the spec.
C11_DefaultAlignment ==
    PaddedByDefault =>
        IF OneArg.type = "string"
        THEN At(out, 0) # " " /\ LastOf(out) = " "
        ELSE At(out, 0) = " " /\ LastOf(out) # " "

(***************************************************************************)
(* C12                                                                     *)
(***************************************************************************)
Sign(v) == IF v < 0 THEN "-" ELSE ""

Magnitude(v) == IF v < 0 THEN -v ELSE v

\* The base a type character of the integer presentations stands for.
BaseOf(t) ==
    CASE t \in {"b", "B"} -> 2
      [] t = "o" -> 8
      [] t \in {"x", "X"} -> 16
      [] OTHER -> 10

\* The digits of the magnitude of v in the base of the type character.
MagnitudeDigits(v, t) ==
    IF v = 0 THEN "0" ELSE ToBase(Magnitude(v), BaseOf(t), t = "X")

BasePrefixes == {"", "0", "0b", "0B", "0x", "0X"}

\* sign, prefix, zeros up to the width, digits
SignPrefixZerosDigits(v, prefix, t, width) ==
    Sign(v) \o prefix
        \o Repeat("0", Max(0, width - Len(Sign(v)) - Len(prefix)
                                  - Len(MagnitudeDigits(v, t))))
        \o MagnitudeDigits(v, t)

\* A call on an integer under a type character of the integer presentations.
IntegerCall ==
    /\ pc # "idle"
    /\ Len(args) = 1
    /\ OneArg.type = "int"
    /\ OneSpec.type \in IntegerTypes

\* The fill is '0' (from the 0 flag or as the fill character) and the
\* alignment is right or left to the default.
ZeroFilledRight ==
    /\ IntegerCall
    /\ OneSpec.fill = "0"
    /\ OneSpec.align \in {NUL, ">"}

C12_Examples ==
    /\ (pc = "returned" /\ fmt = "{:08b}" /\ args = <<IntArg(-10)>>) =>
           out = "-0001010"
    /\ (pc = "returned" /\ fmt = "{:#010b}" /\ args = <<IntArg(10)>>) =>
           out = "0b00001010"
    /\ (pc = "returned" /\ fmt = "{:#08x}" /\ args = <<IntArg(-26)>>) =>
           out = "-0x0001a"

\* C12: zero fill with right or default alignment on an integer gives the
\* sign, then the base prefix (none without '#'), then the zeros, then the
\* digits of the magnitude, as many characters as the width asks for (or the
\* content alone when it is as wide already).
C12_ZeroFillSignAware ==
    /\ ZeroFilledRight =>
           /\ pc # "thrown"
           /\ pc = "returned" =>
                  \E prefix \in BasePrefixes :
                      /\ ~OneSpec.hash_flag => prefix = ""
                      /\ out = SignPrefixZerosDigits(OneArg.int, prefix,
                                                     OneSpec.type, OneSpec.width)
    /\ C12_Examples

C12_Witness ==
    /\ pc = "returned"
    /\ fmt = "{:#08x}"
    /\ args = <<IntArg(-26)>>
    /\ out = "-0x0001a"

(***************************************************************************)
(* C13                                                                     *)
(***************************************************************************)
\* C13: an integer argument, zero included, under a type character that is
\* not one of the integer presentations (none, d, b, B, o, x, X) makes the
\* call fail with the error of an invalid type specifier; nothing is
\* rendered.
C13_IntegerTypeMismatch ==
    (pc \in {"returned", "thrown"} /\ Len(args) = 1 /\ OneArg.type = "int"
         /\ OneSpec.type \notin IntegerTypes) =>
        /\ pc = "thrown"
        /\ Contains(err, "Invalid type specifier")
        /\ out = ""

(***************************************************************************)
(* C14                                                                     *)
(***************************************************************************)
\* The prefix whose case matches the type character.
CasePrefix(t) ==
    CASE t = "b" -> "0b"
      [] t = "B" -> "0B"
      [] t = "x" -> "0x"
      [] t = "X" -> "0X"

\* C14: a binary or hexadecimal rendering of an integer (here with no width,
\* so that nothing is padded) is the sign, the prefix 0b, 0B, 0x or 0X in the
\* case of the type character when '#' is given and no prefix when it is not,
\* and the digits of the magnitude; the value zero included.
C14_PrefixCase ==
    (pc = "returned" /\ Len(args) = 1 /\ OneArg.type = "int"
         /\ OneSpec.type \in {"b", "B", "x", "X"} /\ OneSpec.width = -1) =>
        out = Sign(OneArg.int)
                  \o (IF OneSpec.hash_flag THEN CasePrefix(OneSpec.type) ELSE "")
                  \o MagnitudeDigits(OneArg.int, OneSpec.type)

(***************************************************************************)
(* C15                                                                     *)
(***************************************************************************)
\* An integer under 'o' with '#'.
OctalAlternate ==
    /\ IntegerCall
    /\ OneSpec.type = "o"
    /\ OneSpec.hash_flag

\* The octal digits of the magnitude with the prefix 0 in front, or the
\* single digit 0 for the value zero.
OctalAlternateBody(v) ==
    IF v = 0 THEN "0" ELSE "0" \o ToBase(Magnitude(v), 8, FALSE)

C15_Examples ==
    /\ (pc = "returned" /\ fmt = "{:#o}" /\ args = <<IntArg(10)>>) =>
           out = "012"
    /\ (pc = "returned" /\ fmt = "{:#o}" /\ args = <<IntArg(-10)>>) =>
           out = "-012"
    /\ (pc = "returned" /\ fmt = "{:#o}" /\ args = <<IntArg(0)>>) =>
           out = "0"
    /\ (pc = "returned" /\ fmt = "{:#08o}" /\ args = <<IntArg(10)>>) =>
           out = "00000012"
    /\ (pc = "returned" /\ fmt = "{:#08o}" /\ args = <<IntArg(0)>>) =>
           out = "00000000"

\* C15: "{:#o}" renders a non-zero integer as the sign, the prefix 0 and the
\* octal digits of the magnitude, and zero as the single digit 0; under zero
\* fill (right or default alignment) the zeros go between the sign and that
\* body and the prefix counts toward the width, so the output is as long as
\* the width asks for.
C15_OctalAlternate ==
    /\ OctalAlternate =>
           /\ pc # "thrown"
           /\ (pc = "returned" /\ OneSpec.width = -1) =>
                  out = Sign(OneArg.int) \o OctalAlternateBody(OneArg.int)
           /\ (pc = "returned" /\ ZeroFilledRight) =>
                  /\ out = Sign(OneArg.int)
                               \o Repeat("0", Len(out) - Len(Sign(OneArg.int))
                                                  - Len(OctalAlternateBody(OneArg.int)))
                               \o OctalAlternateBody(OneArg.int)
                  /\ Len(out) = Max(OneSpec.width,
                                    Len(Sign(OneArg.int))
                                        + Len(OctalAlternateBody(OneArg.int)))
    /\ C15_Examples

C15_Witness ==
    /\ pc = "returned"
    /\ fmt = "{:#08o}"
    /\ args = <<IntArg(10)>>
    /\ out = "00000012"

(***************************************************************************)
(* C16                                                                     *)
(***************************************************************************)
\* text is s with fill characters only in front of it and behind it.
PaddedVerbatim(text, s, fill) ==
    \E before \in 0..(Len(text) - Len(s)) :
        text = Repeat(fill, before) \o s
                   \o Repeat(fill, Len(text) - Len(s) - before)

\* C16: a string argument is rendered verbatim under every fill, alignment,
\* width, precision and type character: the call returns, and the output is
\* the characters of the argument, unchanged and in one piece, with fill
\* characters only in front of them and behind them.
C16_StringVerbatim ==
    (pc \in {"returned", "thrown"} /\ Len(args) = 1
         /\ OneArg.type = "string") =>
        /\ pc = "returned"
        /\ PaddedVerbatim(out, OneArg.str, OneSpec.fill)

(***************************************************************************)
(* Two threads, each making calls of its own.  The parameters and locals   *)
(* of format_to have automatic storage, so each thread has a frame of its  *)
(* own; the variables hold the frame of the thread that runs, and other    *)
(* holds the frame of the thread that waits.                               *)
(***************************************************************************)
RunningFrame ==
    [pc |-> pc, fmt |-> fmt, args |-> args, out |-> out, i |-> i,
     current_auto_arg_index |-> current_auto_arg_index,
     indexing_mode |-> indexing_mode, err |-> err, sink |-> sink]

\* A slip: indexing_mode and current_auto_arg_index with static storage, one
\* copy for every call of the process.
Switch_locals_static ==
    /\ other' = RunningFrame
    /\ pc' = other.pc
    /\ fmt' = other.fmt
    /\ args' = other.args
    /\ out' = other.out
    /\ i' = other.i
    /\ err' = other.err
    /\ sink' = other.sink
    /\ UNCHANGED <<current_auto_arg_index, indexing_mode, pad_in, pad_out>>

\* The scheduler lets the other thread run: between any two steps of a call,
\* and between calls.
Switch ==
    /\ other' = RunningFrame
    /\ pc' = other.pc
    /\ fmt' = other.fmt
    /\ args' = other.args
    /\ out' = other.out
    /\ i' = other.i
    /\ current_auto_arg_index' = other.current_auto_arg_index
    /\ indexing_mode' = other.indexing_mode
    /\ err' = other.err
    /\ sink' = other.sink
    /\ UNCHANGED <<pad_in, pad_out>>

\* The calls the two threads make: every branch of the loop is taken by one
\* of them, in each indexing mode, with and without an exception.
InterleavedCalls ==
    {[fmt |-> "{} {}", args |-> <<StringArg("A"), StringArg("B")>>],
     [fmt |-> "{1}{0}", args |-> <<StringArg("A"), StringArg("B")>>],
     [fmt |-> "{}{0}", args |-> <<StringArg("A"), StringArg("B")>>],
     [fmt |-> "{0}{}", args |-> <<StringArg("A"), StringArg("B")>>],
     [fmt |-> "{} {}", args |-> <<IntArg(-10)>>],
     [fmt |-> "{{{}}}", args |-> <<BoolArg(TRUE)>>],
     [fmt |-> "{}}", args |-> <<StringArg("A")>>],
     [fmt |-> "a{", args |-> <<>>],
     [fmt |-> "{:>3}", args |-> <<IntArg(0)>>]}

CallInterleaved == CallFrom(InterleavedCalls, SinkContents)

NextTwo ==
    \/ CallInterleaved
    \/ EscapedOpenBrace
    \/ UnmatchedOpenBrace
    \/ PlaceholderFormatted
    \/ PlaceholderThrows
    \/ EscapedCloseBrace
    \/ UnmatchedCloseBrace
    \/ LiteralChar
    \/ Return
    \/ Leave
    \/ Switch

SpecTwo == Init /\ [][NextTwo]_vars

(***************************************************************************)
(* C17                                                                     *)
(***************************************************************************)
\* What is left of the call of frame fr ends as the call alone does.
ContinuesAsAlone(fr) ==
    format_to_from(fr.fmt, fr.args, fr.i, fr.indexing_mode,
                   fr.current_auto_arg_index, fr.out)
        = format(fr.fmt, fr.args)

\* The call of frame fr stands where the call made alone stands: it starts
\* with the mode unknown and the counter at its first value, it goes on to
\* the result of format for its own template and arguments, and it ended
\* with that result.
AsAlone(fr) ==
    /\ (fr.pc = "loop" /\ fr.i = 0) =>
           /\ fr.indexing_mode = initial_indexing_mode
           /\ fr.current_auto_arg_index = initial_auto_arg_index
           /\ fr.out = ""
    /\ fr.pc = "loop" => ContinuesAsAlone(fr)
    /\ fr.pc = "returned" =>
           format(fr.fmt, fr.args) = CallResult(FALSE, fr.out, "")
    /\ fr.pc = "thrown" =>
           format(fr.fmt, fr.args) = CallResult(TRUE, fr.out, fr.err)

\* C17: a call is a function of its own template and arguments: whatever
\* calls the thread made before (failed ones too) and wherever the calls of
\* the other thread are interleaved with its steps, the call of each thread
\* starts with fresh locals, goes on to the result format gives for its
\* template and arguments alone, and ends with that output or that error.
C17_CallsIndependent == AsAlone(RunningFrame) /\ AsAlone(other)

\* Both threads are inside a call, past a placeholder, in different modes.
C17_Witness ==
    /\ pc = "loop" /\ fmt = "{} {}" /\ i = 2 /\ Len(args) = 2
    /\ indexing_mode = "Automatic" /\ current_auto_arg_index = 1
    /\ other.pc = "loop" /\ other.fmt = "{1}{0}" /\ other.i = 3
    /\ other.indexing_mode = "Manual" /\ other.out = "B"

(***************************************************************************)
(* C18                                                                     *)
(***************************************************************************)
\* The container holds what it held before the call, then what the call
\* wrote so far.
SinkIsContentThenOut ==
    pc # "idle" => \E before \in SinkContents : sink = before \o out

\* A call that returned wrote what format returns.
ReturnedWroteFormat ==
    pc = "returned" => format(fmt, args) = CallResult(FALSE, out, "")

\* A step of a call leaves every character of the container where it is and
\* adds characters only behind them; a step that throws adds none.
SinkOnlyGrows ==
    pc = "loop" =>
        /\ StartsWith(sink', sink)
        /\ Len(sink') >= Len(sink)
        /\ pc' = "thrown" => sink' = sink

\* C18: format_to only appends to the sink: at every step of a call,
\* returning or throwing, what the sink held before the call stays an
\* unchanged prefix of it, what was written is never rewritten or removed,
\* and a call that returned appended what format returns for the same
\* template and arguments.
C18_AppendOnly ==
    /\ [](SinkIsContentThenOut /\ ReturnedWroteFormat)
    /\ [][SinkOnlyGrows]_vars

\* A call on a container that was not empty returned after it appended the
\* rendering of a placeholder and literal text.
C18_Witness ==
    /\ pc = "returned"
    /\ fmt = "Hello {{}} {}" /\ args = <<IntArg(42)>>
    /\ out = "Hello {} 42"
    /\ sink = "Prefix: Hello {} 42"

(***************************************************************************)
(* C19                                                                     *)
(***************************************************************************)
\* C19: explicit and automatic placeholders may be mixed in one template:
\* no call whose template has placeholders of both forms ends with the error
\* of a mode switch, and format("{1} then {} then {0}", "A", "B") returns
\* "B then A then A".
C19_MixedIndexing ==
    /\ (pc \in {"returned", "thrown"} /\ Mixes(fmt)) => ~IsModeConflict(err)
    /\ (/\ pc \in {"returned", "thrown"}
        /\ fmt = "{1} then {} then {0}"
        /\ args = <<StringArg("A"), StringArg("B")>>) =>
           (pc = "returned" /\ out = "B then A then A")

(***************************************************************************)
(* C20                                                                     *)
(***************************************************************************)
IndexingModes == {"Unknown", "Automatic", "Manual"}

\* Inside a call the mode is Unknown exactly as long as no placeholder was
\* resolved, that is, as long as no placeholder lies before i.
UnknownOnlyAtStart ==
    /\ indexing_mode \in IndexingModes
    /\ pc = "loop" =>
           (indexing_mode = "Unknown" <=> PlaceholdersBefore(fmt, i) = {})

\* A step of a call, the one that ends it included, keeps a mode that is
\* set and sets a mode that is not only to Automatic or Manual.
ModeKept ==
    (pc = "loop" /\ pc' # "idle") =>
        /\ indexing_mode # "Unknown" => indexing_mode' = indexing_mode
        /\ indexing_mode' # indexing_mode =>
               (indexing_mode = "Unknown"
                    /\ indexing_mode' \in {"Automatic", "Manual"})

\* C20: within one call the indexing mode is Unknown until the first
\* placeholder is resolved, then Automatic or Manual, and it keeps that value
\* in every later state of the call: no step changes Automatic to Manual or
\* Manual to Automatic, and none returns the mode to Unknown.
C20_ModeInvariant == []UnknownOnlyAtStart /\ [][ModeKept]_vars

\* A call that resolved two explicit placeholders and is still in Manual.
C20_Witness ==
    /\ pc = "loop"
    /\ fmt = "{1}, {0}" /\ i = Len(fmt)
    /\ indexing_mode = "Manual"
    /\ out = "one, zero"

(***************************************************************************)
(* C21                                                                     *)
(***************************************************************************)
\* The unpadded renderings the claims allow for argument a under type
\* character t: sign + prefix + digits of an integer (the prefix only with
\* '#'), the text of a boolean, the characters of a string.
Contents(a, t, hash_flag) ==
    CASE a.type = "int" ->
             {Sign(a.int) \o prefix \o MagnitudeDigits(a.int, t) :
                  prefix \in IF hash_flag THEN BasePrefixes ELSE {""}}
      [] a.type = "bool" -> {IF a.bool THEN "true" ELSE "false"}
      [] OTHER -> {a.str}

\* pad fill characters short of the width
PadOf(content, width) == Max(0, width - Len(content))

\* content padded to the width as the alignment character says, with no
\* fill character inside it.
Mechanical(content, fill, align, width) ==
    CASE align = "<" -> content \o Repeat(fill, PadOf(content, width))
      [] align = ">" -> Repeat(fill, PadOf(content, width)) \o content
      [] OTHER -> Repeat(fill, PadOf(content, width) \div 2) \o content
                      \o Repeat(fill, PadOf(content, width)
                                          - PadOf(content, width) \div 2)

\* A call that returned, under a spec with an alignment character, on a
\* boolean, a string, or an integer under an integer presentation.
AlignedCall ==
    /\ pc = "returned"
    /\ Len(args) = 1
    /\ OneArg.type = "int" => OneSpec.type \in IntegerTypes
    /\ OneSpec.align \in AlignChars

C21_Examples ==
    /\ (pc = "returned" /\ fmt = "{:*>#10b}" /\ args = <<IntArg(10)>>) =>
           out = "****0b1010"
    /\ (pc = "returned" /\ fmt = "{:*^10}" /\ args = <<IntArg(123)>>) =>
           out = "***123****"

\* C21: apart from right alignment with fill '0', padding keeps sign, prefix
\* and body together: under '<' every pad character follows the content,
\* under '>' with a fill other than '0' every pad character precedes the
\* sign, and under '^' with any fill ('0' included) floor(pad/2) fill
\* characters precede the content and the other ceil(pad/2) follow it.
C21_MechanicalPadding ==
    /\ (AlignedCall /\ ~(OneSpec.align = ">" /\ OneSpec.fill = "0")) =>
           \E content \in Contents(OneArg, OneSpec.type, OneSpec.hash_flag) :
               out = Mechanical(content, OneSpec.fill, OneSpec.align,
                                OneSpec.width)
    /\ C21_Examples

\* Centre alignment with fill '0' on a negative integer with a prefix: an
\* odd padding, the smaller half in front of the sign.
C21_Witness ==
    /\ pc = "returned"
    /\ fmt = "{:^#010x}"
    /\ args = <<IntArg(-26)>>
    /\ out = "00-0x1a000"

(***************************************************************************)
(* C22                                                                     *)
(***************************************************************************)
\* The type characters of the presentations in base 2, 8 and 16.
BaseTypes == {"b", "B", "o", "x", "X"}

\* The alternate-form prefix of a non-zero value under a type character.
AlternatePrefix(t) == IF t = "o" THEN "0" ELSE CasePrefix(t)

\* '-', the prefix when '#' is given, the digits of the magnitude of v.
MinusPrefixDigits(v, t, hash_flag) ==
    "-" \o (IF hash_flag THEN AlternatePrefix(t) ELSE "")
        \o MagnitudeDigits(v, t)

\* A call on a negative integer under a type character of base 2, 8 or 16.
NegativeInBase ==
    /\ pc \in {"returned", "thrown"}
    /\ Len(args) = 1
    /\ OneArg.type = "int"
    /\ OneArg.int < 0
    /\ OneSpec.type \in BaseTypes

C22_Examples ==
    /\ (pc = "returned" /\ fmt = "{:b}" /\ args = <<IntArg(-10)>>) =>
           out = "-1010"
    /\ (pc = "returned" /\ fmt = "{:#b}" /\ args = <<IntArg(-10)>>) =>
           out = "-0b1010"
    /\ (pc = "returned" /\ fmt = "{:#X}" /\ args = <<IntArg(-26)>>) =>
           out = "-0X1A"

\* C22: a negative integer under 'b', 'B', 'o', 'x' or 'X' renders as '-',
\* then the alternate-form prefix when '#' is given, then the digits of its
\* magnitude in that base; the call returns; without a width the output is
\* '-' in front of the rendering of the value with the sign removed when
\* there is no prefix, so that v and -v have the same digits; with a width
\* the same content is padded (zeros after the prefix, or fill around it).
C22_NegativeMagnitude ==
    /\ NegativeInBase =>
           /\ pc = "returned"
           /\ OneSpec.width = -1 =>
                  out = MinusPrefixDigits(OneArg.int, OneSpec.type,
                                          OneSpec.hash_flag)
           /\ (OneSpec.width = -1 /\ ~OneSpec.hash_flag) =>
                  out = "-" \o format(fmt, <<IntArg(-OneArg.int)>>).out
           /\ Len(out) = Max(OneSpec.width,
                             Len(MinusPrefixDigits(OneArg.int, OneSpec.type,
                                                   OneSpec.hash_flag)))
           /\ EndsWith(out, MagnitudeDigits(OneArg.int, OneSpec.type))
                  \/ OneSpec.align \in {"<", "^"}
    /\ C22_Examples

\* -26 in upper-case hexadecimal with the prefix.
C22_Witness ==
    /\ pc = "returned"
    /\ fmt = "{:#X}"
    /\ args = <<IntArg(-26)>>
    /\ out = "-0X1A"

(***************************************************************************)
(* Calls of format whose template is one placeholder written out of the    *)
(* characters of the spec grammar: "{:" and up to MaxSpec characters, or   *)
(* "{:" and the fields of the grammar one after the other (a '}' among the *)
(* characters ends the placeholder early and leaves the rest as text), or  *)
(* an argument id of up to MaxId characters with or without a spec behind  *)
(* it.                                                                     *)
(***************************************************************************)
SpecChars == {"<", ">", "^", "#", "0", "3", ".", "d", ":", "{", "}", " "}

\* A width and a precision that do not fit in an int.
OverflowTemplates == {"{:99999999999}", "{:3.99999999999}", "{:99999999999.}"}

\* Spec texts written field by field in the order of the grammar, each
\* field absent, well formed or ill formed.
GrammarBodies ==
    {fa \o h \o w \o p \o t :
         fa \in {""} \cup AlignChars
                    \cup {c \o a : c \in SpecChars, a \in AlignChars},
         h \in {"", "#"}, w \in {"", "0", "3", "03"}, p \in {"", ".", ".3"},
         t \in {"", "d", "d#", "dd"}}

BodyTemplates ==
    {"{:" \o body \o "}" :
         body \in StringsOver(SpecChars, MaxSpec) \cup GrammarBodies}
        \cup OverflowTemplates

IdChars == {"0", "1", "5", "a", "<", "-", " "}

IdTexts ==
    StringsOver(IdChars, MaxId)
        \cup {"abc", "001", "+0", "0x", "99999999999999999999999"}

IdTemplates ==
    {"{" \o id \o tail \o "}" : id \in IdTexts, tail \in {"", ":", ":>3", ":."}}

BodyArgs == <<IntArg(7), StringArg("ab")>>

BodyCalls ==
    {[fmt |-> t, args |-> BodyArgs] : t \in BodyTemplates \cup IdTemplates}

CallBody == CallFrom(BodyCalls, {""})

NextBody ==
    \/ CallBody
    \/ EscapedOpenBrace
    \/ PlaceholderFormatted
    \/ PlaceholderThrows
    \/ EscapedCloseBrace
    \/ UnmatchedCloseBrace
    \/ LiteralChar
    \/ Return
    \/ Leave

SpecBody == Init /\ [][NextBody]_vars

(***************************************************************************)
(* What the claims say of the spec of a placeholder, read off its text.    *)
(***************************************************************************)
\* What parse_placeholder_content makes of the placeholder the template
\* starts with.
OneParsed == parse_placeholder_content(ContentAt(fmt, 0))

\* A call whose template starts with a placeholder with an empty argument
\* id and a spec: the text of the spec, after the ':'.
HasSpecText == pc # "idle" /\ StartsWith(fmt, "{:")

SpecText == SubstrFrom(ContentAt(fmt, 0), 1)

\* The spec text starts with a fill character and an alignment character.
HasExplicitFill(b) == Len(b) >= 2 /\ At(b, 1) \in AlignChars

\* The spec text starts with an alignment character and no fill character.
HasLoneAlign(b) == ~HasExplicitFill(b) /\ Len(b) >= 1 /\ At(b, 0) \in AlignChars

AfterFillAlign(b) ==
    IF HasExplicitFill(b) THEN SubstrFrom(b, 2)
    ELSE IF HasLoneAlign(b) THEN SubstrFrom(b, 1) ELSE b

AfterHash(b) == IF StartsWith(b, "#") /\ b # "" THEN SubstrFrom(b, 1) ELSE b

\* The text from where the width begins.
FromWidth(b) == AfterHash(AfterFillAlign(b))

\* The run of digits b starts with.
DigitsAhead(b) == Substr(b, 0, DigitRunEnd(b, 0))

(***************************************************************************)
(* C23                                                                     *)
(***************************************************************************)
\* The spec was parsed and a '0' stands where its width begins.
ZeroWhereWidthBegins ==
    /\ HasSpecText
    /\ ~OneParsed.thrown
    /\ StartsWith(FromWidth(SpecText), "0")

\* C23: a '0' where the width begins sets the fill to '0' only when no fill
\* character was given with the alignment; a fill character given with an
\* alignment (a space too, as in "{: >05}") is kept; either way the '0' is
\* read as the first digit of the width.
C23_ZeroFillShorthand ==
    ZeroWhereWidthBegins =>
        /\ OneParsed.value.fill =
               IF HasExplicitFill(SpecText) THEN At(SpecText, 0) ELSE "0"
        /\ OneParsed.value.width =
               DecimalValue(DigitsAhead(FromWidth(SpecText)), 0, INT_MAX)

(***************************************************************************)
(* C24                                                                     *)
(***************************************************************************)
\* The template is "{:", a fill character, an alignment character, the
\* width 3 and "}".
FillAlignWidthTemplate ==
    /\ pc \in {"returned", "thrown"}
    /\ Len(fmt) = 6
    /\ StartsWith(fmt, "{:")
    /\ At(fmt, 3) \in AlignChars
    /\ At(fmt, 4) = "3"
    /\ At(fmt, 5) = "}"

\* The template is "{:", an alignment character, the width 3 and "}".
LoneAlignWidthTemplate ==
    /\ pc \in {"returned", "thrown"}
    /\ Len(fmt) = 5
    /\ StartsWith(fmt, "{:")
    /\ At(fmt, 2) \in AlignChars
    /\ At(fmt, 3) = "3"
    /\ At(fmt, 4) = "}"

\* The parser takes any character followed by an alignment character as the
\* fill and the alignment.
ParsesAnyFill ==
    \A c \in SpecChars, a \in AlignChars :
        /\ ~parse_placeholder_content(":" \o c \o a).thrown
        /\ parse_placeholder_content(":" \o c \o a).value.fill = c
        /\ parse_placeholder_content(":" \o c \o a).value.align = a

\* C24: any single character serves as the fill: a spec body that starts
\* with a character c and an alignment character a is parsed with fill c and
\* alignment a, whatever c is (an alignment character, a digit, '#', ':',
\* '{' or '}' included), and the template with that placeholder renders the
\* argument padded with c; an alignment character with no fill in front of
\* it pads with spaces.
C24_AnyFill ==
    /\ ParsesAnyFill
    /\ FillAlignWidthTemplate =>
           /\ pc = "returned"
           /\ out = Mechanical("7", At(fmt, 2), At(fmt, 3), 3)
    /\ LoneAlignWidthTemplate =>
           /\ pc = "returned"
           /\ out = Mechanical("7", " ", At(fmt, 2), 3)

(***************************************************************************)
(* C25                                                                     *)
(***************************************************************************)
\* The spec text b read in the order of the grammar: the digits of the
\* width, what follows them, the digits of the precision, what follows
\* them, and what is left after one type character.
WidthDigits(b) == DigitsAhead(FromWidth(b))

FromPrecision(b) == SubstrFrom(FromWidth(b), Len(WidthDigits(b)))

HasDot(b) == StartsWith(FromPrecision(b), ".")

PrecisionDigits(b) ==
    IF HasDot(b) THEN DigitsAhead(SubstrFrom(FromPrecision(b), 1)) ELSE ""

MissingPrecisionDigits(b) == HasDot(b) /\ PrecisionDigits(b) = ""

FromType(b) ==
    IF HasDot(b)
    THEN SubstrFrom(FromPrecision(b), 1 + Len(PrecisionDigits(b)))
    ELSE FromPrecision(b)

LeftAfterType(b) == IF FromType(b) = "" THEN "" ELSE SubstrFrom(FromType(b), 1)

\* b is [fill align] ['#'] [digits] ['.' digits] [one type character].
OfTheForm(b) == ~MissingPrecisionDigits(b) /\ LeftAfterType(b) = ""

\* The run of digits is the decimal form of an int.
FitsInt(digits) == DecimalValue(digits, 0, INT_MAX) # -1

\* The error the reading of b ends with, "" when it ends with none.
SpecError(b) ==
    IF ~FitsInt(WidthDigits(b)) THEN "Format specifier width out of range"
    ELSE IF MissingPrecisionDigits(b)
    THEN "Format specifier missing precision digits after '.'"
    ELSE IF ~FitsInt(PrecisionDigits(b))
    THEN "Format specifier precision out of range"
    ELSE IF LeftAfterType(b) # ""
    THEN "Invalid characters at end of format specifier: " \o LeftAfterType(b)
    ELSE ""

\* The statement as it was made: the parser accepts exactly the strings of
\* the form, whatever their width and precision.
C25_AsStated ==
    HasSpecText => (~OneParsed.thrown <=> OfTheForm(SpecText))

\* C25: the parser accepts exactly the spec texts of the form
\* [fill align] ['#'] [digits] ['.' digits] [one type character], read in
\* that order, whose width and precision fit in an int; a '.' with no digit
\* behind it is the error of missing precision digits, anything left after
\* the type character is the error of invalid characters at the end, and in
\* each case the call fails with that error and the placeholder writes
\* nothing.
C25_SpecGrammar ==
    HasSpecText =>
        /\ ~OneParsed.thrown <=>
               (/\ OfTheForm(SpecText)
                /\ FitsInt(WidthDigits(SpecText))
                /\ FitsInt(PrecisionDigits(SpecText)))
        /\ OneParsed.thrown <=> SpecError(SpecText) # ""
        /\ OneParsed.thrown => OneParsed.what = SpecError(SpecText)
        /\ (OneParsed.thrown /\ pc \in {"returned", "thrown"}) =>
               /\ pc = "thrown"
               /\ out = ""
               /\ err = "Error parsing placeholder content '"
                            \o ContentAt(fmt, 0) \o "': " \o SpecError(SpecText)

\* A call that failed on a character left after the type character, behind
\* a fill, an alignment, and a width.
C25_Witness ==
    /\ pc = "thrown"
    /\ fmt = "{:>3d#}"
    /\ out = ""
    /\ err = "Error parsing placeholder content ':>3d#': Invalid characters at end of format specifier: #"

(***************************************************************************)
(* C26                                                                     *)
(***************************************************************************)
\* A call that ended, with a template that is one placeholder and nothing
\* else.
OnePlaceholderCall ==
    /\ pc \in {"returned", "thrown"}
    /\ StartsWith(fmt, "{") /\ ~StartsWith(fmt, "{{")
    /\ Find(fmt, "}", 1) = Len(fmt) - 1

\* The argument id: the text of the placeholder before its first ':'.
OneId == ArgIdOf(ContentAt(fmt, 0))

HasColon == Find(ContentAt(fmt, 0), ":", 0) # NPOS

\* The spec text behind the ':' of the placeholder, "" when there is none.
TextAfterColon ==
    IF HasColon THEN SubstrFrom(ContentAt(fmt, 0), Len(OneId) + 1) ELSE ""

OnlyDigits(id) == \A k \in 0..(Len(id) - 1) : At(id, k) \in DigitChars

\* The arguments of the calls as plain text.
PlainArgument(idx) == IF idx = 0 THEN "7" ELSE "ab"

\* The call went to the renderer of the argument at idx (which rejects some
\* type characters) and wrote it, unpadded when there is no spec.
RendersArgument(idx) ==
    /\ pc = "thrown" => StartsWith(err, "Invalid type specifier ")
    /\ TextAfterColon \in {"", ">3"} => pc = "returned"
    /\ TextAfterColon = "" => out = PlainArgument(idx)
    /\ TextAfterColon = ">3" => out = Repeat(" ", 3 - Len(PlainArgument(idx)))
                                          \o PlainArgument(idx)

\* C26: the argument id is the text of the placeholder before its first ':'
\* and the whole text when it has no ':' (nothing of it is then read as a
\* fill, a width, a precision or a type); when the spec behind the ':' is
\* well formed, an empty id takes the argument of the automatic counter, an
\* id of decimal digits takes the argument of that index (or fails as out of
\* bounds), and any other id makes the call fail with the error of an
\* invalid placeholder and write nothing.
C26_ArgumentId ==
    (OnePlaceholderCall /\ SpecError(TextAfterColon) = "") =>
        /\ OneParsed.value.arg_id_str = OneId
        /\ ~HasColon =>
               OneParsed.value = [ParsedFormatSpec EXCEPT !.arg_id_str = OneId]
        /\ OneId = "" =>
               (indexing_mode = "Automatic" /\ RendersArgument(0))
        /\ (OneId # "" /\ OnlyDigits(OneId) /\ IdValue(OneId) \in 0..1) =>
               (indexing_mode = "Manual" /\ RendersArgument(IdValue(OneId)))
        /\ (OneId # "" /\ OnlyDigits(OneId) /\ IdValue(OneId) \notin 0..1) =>
               /\ pc = "thrown"
               /\ out = ""
               /\ \/ IsOutOfBounds(err)
                  \/ err = "Invalid format placeholder: argument index '"
                               \o OneId \o "' out of range for stoul"
        /\ (OneId # "" /\ ~OnlyDigits(OneId)) =>
               /\ pc = "thrown"
               /\ out = ""
               /\ err = "Invalid format placeholder: non-numeric argument index '"
                            \o OneId \o "'"

\* An id that would be an alignment and a width behind a ':' fails as an id.
C26_Witness ==
    /\ pc = "thrown"
    /\ fmt = "{<5}"
    /\ out = ""
    /\ err = "Invalid format placeholder: non-numeric argument index '<5'"

(***************************************************************************)
(* C27                                                                     *)
(***************************************************************************)
BoolText(v) == IF v THEN "true" ELSE "false"

\* The type characters a boolean may carry: none, 'b', 's'.
BoolTypes == {NUL, "b", "s"}

\* C27: a boolean argument renders as the text true or false, padded like
\* any other value, when the spec carries no type character other than 'b'
\* and 's' and no precision; with any other type character, or with a
\* precision, the call fails.
C27_Boolean ==
    (pc \in {"returned", "thrown"} /\ Len(args) = 1 /\ OneArg.type = "bool") =>
        IF OneSpec.type \in BoolTypes /\ OneSpec.precision = -1
        THEN /\ pc = "returned"
             /\ PaddedVerbatim(out, BoolText(OneArg.bool), OneSpec.fill)
        ELSE pc = "thrown"

(***************************************************************************)
(* C28                                                                     *)
(***************************************************************************)
\* The spec text of a placeholder content: what follows its first ':'.
SpecTextIn(content) ==
    IF Find(content, ":", 0) = NPOS THEN ""
    ELSE SubstrFrom(content, Find(content, ":", 0) + 1)

\* The type character of a well-formed spec text, NUL when it has none.
TypeCharIn(b) == IF FromType(b) = "" THEN NUL ELSE At(FromType(b), 0)

\* An id of decimal digits that std::stoul converts: the ids of the calls
\* have fewer than 20 digits or more than 20.
IdConverts(id) == OnlyDigits(id) /\ Len(id) < 20

\* The index the placeholder at p asks for: its id, or the number of the
\* placeholders before it when it has none.
TargetAt(f, p) ==
    IF IsAutomaticAt(f, p) THEN Cardinality(PlaceholdersBefore(f, p))
    ELSE IdValue(ArgIdOf(ContentAt(f, p)))

\* The type-selector check of the renderer of argument x fails on the type
\* character t: the default case of the switch of format_basic_type, which
\* the value 0 returns before, and the test of formatter<bool>; the string
\* renderers have no such check.
TypeRejected(x, t) ==
    \/ x.type = "int" /\ x.int # 0 /\ t \notin IntegerTypes
    \/ x.type = "bool" /\ t \notin BoolTypes

\* The first check, in the order of the claim, that the placeholder at p of
\* template f fails with the arguments a: "none" when it passes them all.
FirstFailing(f, a, p) ==
    IF SpecError(SpecTextIn(ContentAt(f, p))) # "" THEN "parse"
    ELSE IF IsAutomaticAt(f, p) /\ ManualBefore(f, p) THEN "mode"
    ELSE IF ~IsAutomaticAt(f, p) /\ AutomaticBefore(f, p) THEN "mode"
    ELSE IF ~IsAutomaticAt(f, p) /\ ~IdConverts(ArgIdOf(ContentAt(f, p)))
    THEN "id"
    ELSE IF TargetAt(f, p) \notin 0..(Len(a) - 1) THEN "bounds"
    ELSE IF TypeRejected(a[TargetAt(f, p) + 1],
                         TypeCharIn(SpecTextIn(ContentAt(f, p))))
    THEN "type"
    ELSE "none"

\* The check an error message comes from.
CheckOf(e) ==
    CASE StartsWith(e, "Error parsing placeholder content ") -> "parse"
      [] IsModeConflict(e) -> "mode"
      [] StartsWith(e, "Invalid format placeholder: ") -> "id"
      [] IsOutOfBounds(e) -> "bounds"
      [] StartsWith(e, "Invalid type specifier ") -> "type"
      [] OTHER -> "other"

C28_Examples ==
    /\ (pc \in {"returned", "thrown"} /\ fmt = "{5:q}") =>
           (pc = "thrown" /\ IsOutOfBounds(err))
    /\ (pc \in {"returned", "thrown"} /\ fmt = "{} {0:.}") =>
           (pc = "thrown" /\ CheckOf(err) = "parse")

\* C28: the checks of a placeholder run in the order spec grammar, indexing
\* mode, argument id, bounds, type character of the renderer, and the first
\* that fails gives the error; the leftmost failing construct of the
\* template is the one reported: every placeholder the loop has passed
\* failed no check, and the call stops at the first placeholder that fails
\* one, whatever stands to its right.
C28_CheckOrder ==
    /\ pc # "idle" =>
           \A p \in PlaceholdersBefore(fmt, i) :
               FirstFailing(fmt, args, p) = "none"
    /\ (pc = "thrown" /\ i \in PlaceholderPositions(fmt)) =>
           /\ FirstFailing(fmt, args, i) # "none"
           /\ CheckOf(err) = FirstFailing(fmt, args, i)
    /\ (pc = "thrown" /\ i \notin PlaceholderPositions(fmt)) =>
           CheckOf(err) = "other"
    /\ C28_Examples

\* The second placeholder fails the grammar and the indexing mode; the error
\* is the one of the grammar.
C28_Witness ==
    /\ pc = "thrown"
    /\ fmt = "{} {0:.}"
    /\ i = 3
    /\ out = "42 "
    /\ CheckOf(err) = "parse"

(***************************************************************************)
(* C29                                                                     *)
(***************************************************************************)
\* The call made on the part of the template left of position k alone.
LeftOf(f, a, k) == format(Substr(f, 0, k), a)

\* What the call has appended is what the part of the template left of i
\* renders to, and that part renders without a failure.
LeftRendered ==
    pc \in {"loop", "returned", "thrown"} =>
        /\ ~LeftOf(fmt, args, i).thrown
        /\ out = LeftOf(fmt, args, i).out

\* The step that fails appends nothing and stays at the failing construct;
\* the step that passes a placeholder appends its whole padded text at once.
FailureWritesNothing ==
    /\ (pc = "loop" /\ pc' = "thrown") =>
           (out' = out /\ sink' = sink /\ i' = i)
    /\ (AtPlaceholder /\ pc' = "loop") =>
           /\ i' = Find(fmt, "}", i + 1) + 1
           /\ ~formatter_format(args[TargetAt(fmt, i) + 1],
                                ParsedAtI.value).thrown
           /\ out' = out \o formatter_format(args[TargetAt(fmt, i) + 1],
                                             ParsedAtI.value).value

\* C29: a placeholder is rendered and padded in full before any character
\* of it is written, so a call that fails at some construct has appended
\* exactly what the part of the template left of that construct renders to;
\* the failing placeholder adds no character.
C29_PlaceholderAtomic == []LeftRendered /\ [][FailureWritesNothing]_vars

\* The second placeholder fails in the renderer, after the first was
\* written padded and the literal after it copied.
C29_Witness ==
    /\ pc = "thrown"
    /\ fmt = "{:*>5}|{:q}|{}"
    /\ i = 7
    /\ out = "***42|"
    /\ StartsWith(err, "Invalid type specifier ")

(***************************************************************************)
(* C30                                                                     *)
(***************************************************************************)
\* The positions of the close braces of f after position k.
ClosesAfter(f, k) == {c \in (k + 1)..(Len(f) - 1) : At(f, c) = "}"}

\* The first of them; there is one.
FirstCloseAfter(f, k) ==
    CHOOSE c \in ClosesAfter(f, k) : \A d \in ClosesAfter(f, k) : c <= d

\* The loop stands on an open brace that is not doubled.
AtSingleOpen ==
    /\ pc = "loop"
    /\ i < Len(fmt)
    /\ At(fmt, i) = "{"
    /\ ~(i + 1 < Len(fmt) /\ At(fmt, i + 1) = "{")

\* The text the argument n of the call renders to with no spec.
PlainText(n) == formatter_format(args[n], ParsedFormatSpec).value

\* The placeholder the loop stands on is handled as the text up to the first
\* close brace after it, whatever follows that brace: the step either fails
\* there, or appends what that text renders to and goes on right behind that
\* brace.  With no close brace after it the step fails.
EndsAtFirstClose ==
    AtSingleOpen =>
        IF ClosesAfter(fmt, i) = {}
        THEN pc' = "thrown" /\ err' = "Unmatched '{' in format string"
        ELSE \/ /\ pc' = "thrown"
                /\ i' = i
                /\ placeholder(Substr(fmt, i + 1,
                                      FirstCloseAfter(fmt, i) - (i + 1)),
                               args, indexing_mode,
                               current_auto_arg_index).thrown
             \/ /\ pc' = "loop"
                /\ i' = FirstCloseAfter(fmt, i) + 1
                /\ out' = out \o placeholder(
                                     Substr(fmt, i + 1,
                                            FirstCloseAfter(fmt, i) - (i + 1)),
                                     args, indexing_mode,
                                     current_auto_arg_index).text

\* An escape is taken only where the loop stands, which is never inside a
\* placeholder: the step on a doubled brace appends one brace and passes
\* both, and a step that passes a placeholder appends no more than the
\* placeholder renders to, braces of its content included.
EscapesOutside ==
    (pc = "loop" /\ pc' = "loop" /\ ~AtSingleOpen) =>
        /\ out' = out \o At(fmt, i)
        /\ i' = IF At(fmt, i) \in {"{", "}"} THEN i + 2 ELSE i + 1
        /\ At(fmt, i) = "}" => (i + 1 < Len(fmt) /\ At(fmt, i + 1) = "}")

C30_Examples ==
    /\ (Ended /\ fmt = "{{{}}}" /\ args = <<IntArg(42)>>) =>
           (pc = "returned" /\ out = "{42}")
    /\ (Ended /\ fmt = "{0}}}" /\ Len(args) >= 1) =>
           (pc = "returned" /\ out = PlainText(1) \o "}")
    /\ (Ended /\ fmt = "{}}" /\ Len(args) >= 1) =>
           /\ pc = "thrown"
           /\ err = "Unmatched '}' in format string"
           /\ out = PlainText(1)
    /\ (Ended /\ fmt = "{0{{}") =>
           (pc = "thrown" /\ CheckOf(err) = "id" /\ out = "")

\* C30: a placeholder opened by an open brace that is not doubled ends at
\* the first close brace after it, also when that brace is followed by
\* another; the escapes are recognised only outside placeholders.
C30_FirstCloseEnds == []C30_Examples /\ [][EndsAtFirstClose /\ EscapesOutside]_vars

\* The placeholder of "{0}}}" was written and the loop stands on the doubled
\* close brace behind it.
C30_Witness ==
    /\ pc = "loop"
    /\ fmt = "{0}}}"
    /\ i = 3
    /\ Len(args) >= 1
    /\ out = PlainText(1)

=============================================================================
